---- MODULE Spec2Model ----
(***************************************************************************)
(* Model of mcp-agentapi: the process-lifecycle supervisor (AgentManager,  *)
(* src/src/agent_manager.py) and the event buffer of the stream bridge     *)
(* (AgentAPIClient.stream_events_to_mcp, src/src/api_client.py).           *)
(*                                                                         *)
(* The supervisor runs on one asyncio event loop.  An action of the model  *)
(* is the code a task runs between two suspension points (an await that    *)
(* really yields: a lock that is held, an HTTP probe, a subprocess, a      *)
(* sleep).  External answers (probe results, command results, process      *)
(* exits, the wall clock) are choices of the environment.                  *)
(***************************************************************************)
EXTENDS Integers, Sequences, FiniteSets, TLC

\* ---------------------------------------------------------------- bounds
\* Concurrent caller tasks of the supervisor.
NumTasks == 2
\* Process handles the operating system can hand out before one is reused.
MaxProcs == 3
\* Iterations of start_agent's wait loop after which the 30 s start timeout
\* has certainly elapsed (the clock is the environment's).
MaxStartPolls == 2

\* max_buffer_size (EVENT_BUFFER_SIZE, 1024 in the code), scaled down.
max_buffer_size == 4
\* Events the upstream and the pollers hand to buffer_event in one run.
MaxArrivals == 5
\* max_reconnect_attempts (15 in stream_events_to_mcp), scaled down.
max_reconnect_attempts == 2
\* Readings of time.time() tell MaxClock + 1 instants apart; one tick is
\* half a second.
MaxClock == 1
\* server.notify calls that raise in one run.
MaxNotifyErrors == 1
MaxHandles == 4
MaxRetryAttempts == 3

\* Callers of tracked operations, and the last clock value considered.
NumOpCalls == 3
MaxOpClock == 5

\* The number of tasks the event emitter creates at most.
MaxBridgeTasks == 9

Tasks == 1..NumTasks
Procs == 1..MaxProcs
\* Two of the five AgentType members, in the enum's declaration order.
AgentOrder == <<"claude", "goose">>
Agents == {AgentOrder[i] : i \in 1..Len(AgentOrder)}

NoTask == 0
NoProc == 0
NoAgent == "none"

\* The public operations on one agent.
AgentOps == {"get_status", "install", "start", "stop", "restart", "switch"}

\* The keys of AgentManager._operation_locks.
OpKinds == {"detect", "install", "start", "stop", "restart", "switch", "monitor"}

VARIABLES
    install_status,   \* AgentInfo.install_status, per agent
    running_status,   \* AgentInfo.running_status, per agent
    process,          \* AgentInfo.process, per agent (NoProc is None)
    proc_state,       \* the operating system's view of each handle
    proc_agent,       \* the agent each handle was spawned for
    op_lock,          \* _operation_locks: the task holding each, or NoTask
    agent_lock,       \* _agent_locks: the task holding each, or NoTask
    stack,            \* per task: its call stack of supervisor coroutines
    result,           \* per task: how its last top-level call ended
    last_probe        \* per agent: outcome of the latest liveness probe

supVars == <<install_status, running_status, process, proc_state, proc_agent,
             op_lock, agent_lock, stack, result, last_probe>>

VARIABLES
    event_buffer,       \* stream_events_to_mcp: the buffered events
    events_to_process,  \* process_event_buffer: drained events not yet sent
    sent,               \* the notify calls of the batch in hand, in order
    batch_in,           \* the buffer as the batch in hand was drained from it
    last_event_id,      \* the watermark used for reconnection (<<>> is None)
    error_count,        \* failed notify calls
    overflows,          \* "Event buffer overflow" warnings logged
    arrived,            \* events handed to buffer_event so far
    clock               \* time.time(), in ticks

streamVars == <<event_buffer, events_to_process, sent, batch_in, last_event_id,
                error_count, overflows, arrived, clock>>

VARIABLES
    conn,            \* stream_events: "idle" (not called), "connecting",
                     \* "open", "backoff" (sleeping) or "failed" (it raised)
    attempt,         \* stream_events: consecutive failed attempts
    delay,           \* stream_events: times the delay was multiplied
    request_id,      \* the last_event_id stream_events was called with
    reconnecting,    \* the next request follows a drop or an end of stream
    last_request     \* the latest connection request sent upstream

connVars == <<conn, attempt, delay, request_id, reconnecting, last_request>>

\* ResourceManager: the three registries, as one map from (registry, key)
\* to the registered handle (NoHandleYet where the key is absent); the number
\* of handles created so far; the outcome of the latest register_* call;
\* and the progress of cleanup_all.
VARIABLES registry, handles, reg_result, cleanup

rmVars == <<registry, handles, reg_result, cleanup>>

\* monitor_agent: the locals of one monitoring loop (where it is, its
\* auto_reconnect argument, consecutive_failures, check_interval in tenths
\* of a second, whether the last status was RUNNING), and the number of
\* restart attempts that failed since the last one that succeeded.
VARIABLE monitor

\* make_request: one call (where it is, its retry_attempts argument, the
\* attempt counter, what it raised and the status code the error carries),
\* and what each HTTP request it issued came back with.
VARIABLE request

\* EventEmitter: _active; the state of _stream_task and whether it was
\* created since the last health check; whether _health_check_task runs;
\* whether a start_background_stream is waiting to run; whether
\* _last_event_time > 0 and the number of whole check intervals since then
\* (since construction when no event was recorded); the parity of
\* _last_health_check.
VARIABLE emitter

\* HealthCheck (health_check.py): _is_running; whether _health_check_task
\* is held; the periodic tasks created and not yet finished; which of
\* start, stop and check_health was called last and whether a start or
\* stop returned early; and the
\* _health_status dictionary (the component statuses, what the upstream
\* status endpoint answered to each probe, and the overall status).
VARIABLE health

\* ResourceManager.stop_process: one call (where it is, the key it was given
\* and the process it found under it), the signals it sent in order,
\* whether the termination was imperfect (a kill was needed, or an
\* exception of the termination or of closing the streams was logged), and
\* what it raised.
VARIABLE stopping

\* _track_operation: the clock in units of twenty seconds; _active_operations
\* (record id to status); the _cleanup_operation tasks asleep (record id
\* and the time each wakes); the holder of the "start" category lock and
\* the callers waiting for it in order; and per caller where it is, its
\* record id, when its body began and how the call ended.
VARIABLE operations

\* EventEmitter with its tasks one by one: _active; every task created by
\* the emitter, in creation order (its kind, the stream it serves, where it
\* is, whether a cancellation was requested and not yet raised in it, and
\* the task it waits for); _stream_task and _screen_stream_task;
\* _health_check_task; ResourceManager._tasks at the emitter's keys; how
\* far stop() is and the tasks it still has to cancel; how far cleanup_all
\* is and the keys it still has to cancel; whether the lifespan started
\* the streams.
VARIABLE bridge

auxVars == <<rmVars, monitor, request, emitter, health, stopping, operations, bridge>>

\* What the actions of one component leave alone.
NotSup == <<streamVars, connVars, auxVars>>

NotStream == <<supVars, connVars, auxVars>>

NotConn == <<supVars, auxVars>>

NotRm == <<supVars, streamVars, connVars, monitor, request, emitter, health, stopping, operations, bridge>>

NotMonitor == <<supVars, streamVars, connVars, rmVars, request, emitter, health, stopping, operations, bridge>>

NotRequest == <<supVars, streamVars, connVars, rmVars, monitor, emitter, health, stopping, operations, bridge>>

NotEmitter == <<supVars, streamVars, connVars, rmVars, monitor, request, health, stopping, operations, bridge>>

NotHealth == <<supVars, streamVars, connVars, rmVars, monitor, request, emitter, stopping, operations, bridge>>

NotStopping == <<supVars, streamVars, connVars, rmVars, monitor, request, emitter, health, operations, bridge>>

NotOperations == <<supVars, streamVars, connVars, rmVars, monitor, request, emitter, health, stopping, bridge>>

NotBridge == <<supVars, streamVars, connVars, rmVars, monitor, request, emitter, health, stopping, operations>>

vars == <<supVars, streamVars, connVars, auxVars>>

\* ------------------------------------------------------------ processes
\* subprocess.Popen.poll() is None: the process has not exited yet.  A
\* process that was sent SIGKILL and has not been reaped is "killed".
Alive(p) == proc_state[p] \in {"alive", "killed"}

FreshProcs == {p \in Procs : proc_state[p] = "unspawned"}

\* The handle subprocess.Popen returns: the next unused one.
NewProc == CHOOSE p \in FreshProcs : \A q \in FreshProcs : p <= q

\* --------------------------------------------------------------- frames
\* One coroutine of the supervisor on a task's call stack.
NoSubs == [a \in Agents |-> "none"]

Frame(op, a, pc) == [op |-> op, agent |-> a, pc |-> pc, proc |-> NoProc, polls |-> 0,
                     sub |-> NoSubs]

Top(t) == Head(stack[t])

\* How a coroutine ended: a returned handle, a returned boolean, a returned
\* status pair, or a raised exception.
NoResult == [kind |-> "none", op |-> "none", agent |-> NoAgent, proc |-> NoProc,
             flag |-> FALSE, err |-> "none", spawned |-> NoProc,
             inst |-> "none", run |-> "none"]

RetProc(f, p) == [NoResult EXCEPT !.kind = "proc", !.op = f.op, !.agent = f.agent,
                                   !.proc = p, !.spawned = f.proc]

RetBool(f, b) == [NoResult EXCEPT !.kind = "bool", !.op = f.op, !.agent = f.agent,
                                   !.flag = b]

RetStatus(f, i, r) == [NoResult EXCEPT !.kind = "status", !.op = f.op,
                                        !.agent = f.agent, !.inst = i, !.run = r]

RetNone(f) == [NoResult EXCEPT !.kind = "done", !.op = f.op, !.agent = f.agent]

Raise(f, e) == [NoResult EXCEPT !.kind = "error", !.op = f.op, !.agent = f.agent,
                                 !.err = e, !.spawned = f.proc]

\* Operations wrapped in _track_operation, and the locks each one takes.
TakesOpLock(f) == f.op \in {"start", "stop", "restart", "switch", "detect"}

TakesAgentLock(f) == f.op \in {"start", "stop", "restart", "switch", "get_status"}

\* The finally block of _track_operation (and the exit of "async with
\* self._agent_locks[...]"): the agent lock first, then the category lock,
\* each released when it is locked.
ReleaseAgent(agl, f) ==
    IF TakesAgentLock(f) /\ f.agent # NoAgent /\ agl[f.agent] # NoTask
    THEN [agl EXCEPT ![f.agent] = NoTask] ELSE agl

ReleaseOp(opl, f) ==
    IF TakesOpLock(f) /\ opl[f.op] # NoTask
    THEN [opl EXCEPT ![f.op] = NoTask] ELSE opl

\* The top coroutine of stk ends with outcome out: its locks are released
\* and its caller resumes, in the same step, until the caller suspends
\* or ends too.  restart_agent and switch_agent turn every failure of the
\* nested stop_agent or start_agent into AgentSwitchError.  _install_<agent>
\* returns True once the _detect_agent it awaits returns.  get_agent_status
\* waits for _detect_agent as a separate task (asyncio.wait_for), so it is
\* only made ready again.
RECURSIVE Unwind(_, _, _, _)
Unwind(stk, opl, agl, out) ==
    LET f == Head(stk)
        rest == Tail(stk)
        agl2 == ReleaseAgent(agl, f)
        opl2 == ReleaseOp(opl, f)
    IN  IF rest = <<>>
        THEN [stk |-> <<>>, opl |-> opl2, agl |-> agl2, out |-> out]
        ELSE LET c == Head(rest) IN
             IF c.pc = "await_stop"
             THEN IF out.kind = "error"
                  THEN Unwind(rest, opl2, agl2, Raise(c, "AgentSwitchError"))
                  ELSE [stk |-> <<[c EXCEPT !.pc = "settle"]>> \o Tail(rest),
                        opl |-> opl2, agl |-> agl2, out |-> out]
             ELSE IF c.pc = "await_detect" /\ c.op = "install"
             THEN Unwind(rest, opl2, agl2, RetBool(c, TRUE))
             ELSE IF c.pc = "await_detect"
             THEN [stk |-> <<[c EXCEPT !.pc = "after_detect"]>> \o Tail(rest),
                   opl |-> opl2, agl |-> agl2, out |-> out]
             ELSE \* c.pc = "await_start"
                  IF out.kind = "proc" /\ out.proc # NoProc
                  THEN Unwind(rest, opl2, agl2, RetProc(c, out.proc))
                  ELSE Unwind(rest, opl2, agl2, Raise(c, "AgentSwitchError"))

\* Task t's top coroutine ends with out, given the lock state (opl, agl).
Finish(t, opl, agl, out) ==
    LET u == Unwind(stack[t], opl, agl, out) IN
    /\ stack' = [stack EXCEPT ![t] = u.stk]
    /\ op_lock' = u.opl
    /\ agent_lock' = u.agl
    /\ result' = IF u.stk = <<>> THEN [result EXCEPT ![t] = u.out] ELSE result

\* Task t's top coroutine suspends at pc (with its frame updated to f).
Suspend(t, f) == stack' = [stack EXCEPT ![t] = <<f>> \o Tail(stack[t])]

\* Task t's top coroutine awaits a nested coroutine.
Await(t, f, callee) == stack' = [stack EXCEPT ![t] = <<callee, f>> \o Tail(stack[t])]

\* async with / await lock.acquire() on the agent lock of the top frame.
AgentLockFree(t) == agent_lock[Top(t).agent] = NoTask

TakeAgent(t) == [agent_lock EXCEPT ![Top(t).agent] = t]

\* ----------------------------------------------------------- operations
\* A caller invokes a public operation.  Operations under _track_operation
\* first wait for their category lock; get_agent_status waits for the agent
\* lock only.
Call(t, op, a) ==
    /\ UNCHANGED NotSup
    /\ UNCHANGED proc_agent
    /\ stack[t] = <<>>
    /\ op = "detect" <=> a = NoAgent
    /\ stack' = [stack EXCEPT ![t] =
                    <<Frame(op, a, CASE op = "get_status" -> "acq_agent"
                                     [] op = "install" -> "inst_start"
                                     [] OTHER -> "acq_op")>>]
    /\ result' = [result EXCEPT ![t] = NoResult]
    /\ UNCHANGED <<install_status, running_status, process, proc_state, op_lock,
                   agent_lock, last_probe>>

\* _track_operation: await operation_lock.acquire().
AcquireOp(t) ==
    /\ UNCHANGED NotSup
    /\ UNCHANGED proc_agent
    /\ stack[t] # <<>>
    /\ Top(t).pc = "acq_op"
    /\ op_lock[Top(t).op] = NoTask
    /\ op_lock' = [op_lock EXCEPT ![Top(t).op] = t]
    /\ Suspend(t, [Top(t) EXCEPT !.pc = IF Top(t).op = "detect" THEN "probe"
                                         ELSE "acq_agent"])
    /\ UNCHANGED <<install_status, running_status, process, proc_state,
                   agent_lock, result, last_probe>>

\* An install test that lets a partial installation through.
NotAtAllInstalled(a) == install_status[a] \notin {"installed", "partial"}

\* start_agent's install test: anything but INSTALLED is rejected.
NotInstalled(a) == install_status[a] # "installed"

\* An idempotence test with the poll() test inverted.
RunningButExited(a) ==
    /\ running_status[a] = "running"
    /\ process[a] # NoProc
    /\ ~Alive(process[a])

\* A start_agent without the idempotence test.
NeverAlreadyRunning(a) == FALSE

\* start_agent's idempotence test: the descriptor says RUNNING and the
\* handle it holds has not exited.
AlreadyRunning(a) ==
    /\ running_status[a] = "running"
    /\ process[a] # NoProc
    /\ Alive(process[a])

\* start_agent up to its first probe: the agent lock is acquired, the
\* descriptor is checked, the credential is resolved and the subprocess is
\* spawned.  credOk and spawnOk are the environment's: whether a required
\* API key resolves, and whether subprocess.Popen succeeds (it fails once
\* MaxProcs subprocesses were spawned).
StartEnter(t) ==
    /\ UNCHANGED NotSup
    /\ stack[t] # <<>>
    /\ Top(t).op = "start" /\ Top(t).pc = "acq_agent"
    /\ AgentLockFree(t)
    /\ LET f == Top(t)
           a == f.agent
           agl == TakeAgent(t)
       IN  IF NotInstalled(a)
           THEN /\ Finish(t, op_lock, agl, Raise(f, "AgentStartError"))
                /\ UNCHANGED <<install_status, running_status, process, proc_state,
                               proc_agent, last_probe>>
           ELSE IF AlreadyRunning(a)
           THEN /\ Finish(t, op_lock, agl, RetProc(f, process[a]))
                /\ UNCHANGED <<install_status, running_status, process, proc_state,
                               proc_agent, last_probe>>
           ELSE LET stale == running_status[a] = "running" /\ process[a] # NoProc IN
                /\ process' = IF stale THEN [process EXCEPT ![a] = NoProc] ELSE process
                /\ running_status' = IF stale
                                     THEN [running_status EXCEPT ![a] = "stopped"]
                                     ELSE running_status
                /\ \E credOk \in BOOLEAN, spawnOk \in BOOLEAN :
                      /\ spawnOk => FreshProcs # {}
                      /\ IF ~credOk \/ ~spawnOk
                         THEN /\ Finish(t, op_lock, agl, Raise(f, "AgentStartError"))
                              /\ UNCHANGED <<proc_state, proc_agent>>
                         ELSE /\ proc_state' = [proc_state EXCEPT ![NewProc] = "alive"]
                              /\ proc_agent' = [proc_agent EXCEPT ![NewProc] = a]
                              /\ Suspend(t, [f EXCEPT !.pc = "validating",
                                                      !.proc = NewProc])
                              /\ agent_lock' = agl
                              /\ UNCHANGED <<op_lock, result>>
                /\ UNCHANGED <<install_status, last_probe>>

\* start_agent: _validate_agent_running returns inside the wait loop.
StartValidated(t) ==
    /\ UNCHANGED NotSup
    /\ UNCHANGED proc_agent
    /\ stack[t] # <<>>
    /\ Top(t).op = "start" /\ Top(t).pc = "validating"
    /\ LET f == Top(t)
           a == f.agent
       IN  \E ok \in BOOLEAN :
            /\ last_probe' = [last_probe EXCEPT ![a] = IF ok THEN "ok" ELSE "fail"]
            /\ IF ok
               THEN /\ process' = [process EXCEPT ![a] = f.proc]
                    /\ running_status' = [running_status EXCEPT ![a] = "running"]
                    /\ Finish(t, op_lock, agent_lock, RetProc(f, f.proc))
               ELSE /\ Suspend(t, [f EXCEPT !.pc = "sleeping", !.polls = f.polls + 1])
                    /\ UNCHANGED <<process, running_status, op_lock, agent_lock, result>>
            /\ UNCHANGED <<install_status, proc_state>>

\* A timeout path that leaves the subprocess alone.
LeftRunning(p, graceful) == proc_state

\* process.terminate(); process.wait(timeout=5); on TimeoutExpired
\* process.kill(): the process exits on SIGTERM, or is sent SIGKILL.
TerminateThenKill(p, graceful) ==
    IF ~Alive(p) THEN proc_state
    ELSE [proc_state EXCEPT ![p] = IF graceful THEN "exited" ELSE "killed"]

\* start_agent: asyncio.sleep returns and the wait loop tests its clock,
\* then the process.  late: the start timeout has elapsed.
StartWake(t) ==
    /\ UNCHANGED NotSup
    /\ UNCHANGED proc_agent
    /\ stack[t] # <<>>
    /\ Top(t).op = "start" /\ Top(t).pc = "sleeping"
    /\ LET f == Top(t) IN
       \E late \in BOOLEAN, graceful \in BOOLEAN :
        /\ f.polls >= MaxStartPolls => late
        /\ IF late
           THEN /\ proc_state' = TerminateThenKill(f.proc, graceful)
                /\ Finish(t, op_lock, agent_lock, Raise(f, "TimeoutError"))
           ELSE IF ~Alive(f.proc)
           THEN /\ Finish(t, op_lock, agent_lock, Raise(f, "AgentStartError"))
                /\ UNCHANGED proc_state
           ELSE /\ Suspend(t, [f EXCEPT !.pc = "validating"])
                /\ UNCHANGED <<proc_state, op_lock, agent_lock, result>>
        /\ UNCHANGED <<install_status, running_status, process, last_probe>>

\* A not-running test that looks at the handle only.
NoHandle(a) == process[a] = NoProc

\* stop_agent's not-running test.
NotRunning(a) == running_status[a] # "running" \/ process[a] = NoProc

\* stop_agent up to its verification probe.  how: what the process does
\* with terminate(), wait(timeout), kill(), wait(3).
StopEnter(t) ==
    /\ UNCHANGED NotSup
    /\ UNCHANGED proc_agent
    /\ stack[t] # <<>>
    /\ Top(t).op = "stop" /\ Top(t).pc = "acq_agent"
    /\ AgentLockFree(t)
    /\ LET f == Top(t)
           a == f.agent
           p == process[a]
           agl == TakeAgent(t)
       IN  IF NotRunning(a)
           THEN LET stale == p # NoProc /\ ~Alive(p) IN
                /\ process' = IF stale THEN [process EXCEPT ![a] = NoProc] ELSE process
                /\ running_status' = IF stale
                                     THEN [running_status EXCEPT ![a] = "stopped"]
                                     ELSE running_status
                /\ Finish(t, op_lock, agl, RetBool(f, FALSE))
                /\ UNCHANGED <<install_status, proc_state, last_probe>>
           ELSE \E how \in {"exits", "killed", "survives"} :
                /\ ~Alive(p) => how = "exits"
                /\ IF how = "survives"
                   THEN /\ proc_state' = [proc_state EXCEPT ![p] = "killed"]
                        /\ Finish(t, op_lock, agl, Raise(f, "AgentStopError"))
                        /\ UNCHANGED <<process, running_status>>
                   ELSE /\ proc_state' = [proc_state EXCEPT ![p] = "exited"]
                        /\ process' = [process EXCEPT ![a] = NoProc]
                        /\ running_status' = [running_status EXCEPT ![a] = "stopped"]
                        /\ Suspend(t, [f EXCEPT !.pc = "verify"])
                        /\ agent_lock' = agl
                        /\ UNCHANGED <<op_lock, result>>
                /\ UNCHANGED <<install_status, last_probe>>

\* A stop that takes the agent for stopped without looking at the probe.
StopAssumed(f, ok) == RetBool(f, TRUE)

\* stop_agent after its verification probe: AgentStopError when the agent
\* still responds, True otherwise.
StopVerdict(f, ok) == IF ok THEN Raise(f, "AgentStopError") ELSE RetBool(f, TRUE)

\* stop_agent: the verification probe returns.
StopVerified(t) ==
    /\ UNCHANGED NotSup
    /\ UNCHANGED proc_agent
    /\ stack[t] # <<>>
    /\ Top(t).op = "stop" /\ Top(t).pc = "verify"
    /\ LET f == Top(t) IN
       \E ok \in BOOLEAN :
        /\ last_probe' = [last_probe EXCEPT ![f.agent] = IF ok THEN "ok" ELSE "fail"]
        /\ Finish(t, op_lock, agent_lock, StopVerdict(f, ok))
        /\ UNCHANGED <<install_status, running_status, process, proc_state>>

\* restart_agent up to its first await: stop_agent when the descriptor says
\* running, the settle sleep otherwise.
RestartEnter(t) ==
    /\ UNCHANGED NotSup
    /\ UNCHANGED proc_agent
    /\ stack[t] # <<>>
    /\ Top(t).op = "restart" /\ Top(t).pc = "acq_agent"
    /\ AgentLockFree(t)
    /\ agent_lock' = TakeAgent(t)
    /\ LET f == Top(t) IN
       IF running_status[f.agent] = "running"
       THEN Await(t, [f EXCEPT !.pc = "await_stop"], Frame("stop", f.agent, "acq_op"))
       ELSE Suspend(t, [f EXCEPT !.pc = "settle"])
    /\ UNCHANGED <<install_status, running_status, process, proc_state, op_lock,
                   result, last_probe>>

\* The first agent, in the order of self.agents, that is running with a
\* live handle (switch_agent's loop), or NoAgent.
RECURSIVE FirstRunning(_)
FirstRunning(i) ==
    IF i > Len(AgentOrder) THEN NoAgent
    ELSE LET a == AgentOrder[i] IN
         IF running_status[a] = "running" /\ process[a] # NoProc /\ Alive(process[a])
         THEN a ELSE FirstRunning(i + 1)

\* A switch_agent that never finds its target running.
NeverActive(running_agent, a) == FALSE

\* switch_agent's test "the requested agent is already running".
AlreadyActive(running_agent, a) == running_agent = a

\* switch_agent up to its first await.
SwitchEnter(t) ==
    /\ UNCHANGED NotSup
    /\ UNCHANGED proc_agent
    /\ stack[t] # <<>>
    /\ Top(t).op = "switch" /\ Top(t).pc = "acq_agent"
    /\ AgentLockFree(t)
    /\ LET f == Top(t)
           a == f.agent
           agl == TakeAgent(t)
           running_agent == FirstRunning(1)
       IN  IF install_status[a] # "installed"
           THEN Finish(t, op_lock, agl, Raise(f, "AgentSwitchError"))
           ELSE IF AlreadyActive(running_agent, a)
           THEN Finish(t, op_lock, agl, RetProc(f, process[a]))
           ELSE /\ agent_lock' = agl
                /\ UNCHANGED <<op_lock, result>>
                /\ IF running_agent # NoAgent
                   THEN Await(t, [f EXCEPT !.pc = "await_stop"],
                              Frame("stop", running_agent, "acq_op"))
                   ELSE Suspend(t, [f EXCEPT !.pc = "settle"])
    /\ UNCHANGED <<install_status, running_status, process, proc_state, last_probe>>

\* restart_agent and switch_agent: the settle sleep returns and start_agent
\* is awaited.
SettleWake(t) ==
    /\ UNCHANGED NotSup
    /\ UNCHANGED proc_agent
    /\ stack[t] # <<>>
    /\ Top(t).op \in {"restart", "switch"} /\ Top(t).pc = "settle"
    /\ Await(t, [Top(t) EXCEPT !.pc = "await_start"],
             Frame("start", Top(t).agent, "acq_op"))
    /\ UNCHANGED <<install_status, running_status, process, proc_state, op_lock,
                   agent_lock, result, last_probe>>

\* ------------------------------------------------------------ detection
\* _detect_agent, first part: without the agentapi binary the agent is
\* marked not installed and detection ends.
DetectEntryInstall(inst, a, apiInstalled) ==
    IF apiInstalled THEN inst ELSE [inst EXCEPT ![a] = "not_installed"]

\* _detect_agent, after "agentapi server --help": every branch assigns
\* INSTALLED or PARTIAL.
DetectCmdInstall(inst, a, verdict) == [inst EXCEPT ![a] = verdict]

\* _detect_agent, after _validate_agent_running: RUNNING or STOPPED, and a
\* responding goose is marked installed.
DetectProbeRunning(run, a, ok) == [run EXCEPT ![a] = IF ok THEN "running" ELSE "stopped"]

DetectProbeInstall(inst, a, ok) ==
    IF ok /\ a = "goose" THEN [inst EXCEPT ![a] = "installed"] ELSE inst

ProbeOutcome(ok) == IF ok THEN "ok" ELSE "fail"

\* _detect_agent as a coroutine of its own (awaited by get_agent_status
\* through wait_for, and directly by _install_<agent>).
DetectEnter(t) ==
    /\ UNCHANGED NotSup
    /\ UNCHANGED proc_agent
    /\ stack[t] # <<>>
    /\ Top(t).op = "_detect" /\ Top(t).pc = "det_start"
    /\ LET f == Top(t) IN
       \E apiInstalled \in BOOLEAN :
        /\ install_status' = DetectEntryInstall(install_status, f.agent, apiInstalled)
        /\ IF apiInstalled
           THEN /\ Suspend(t, [f EXCEPT !.pc = "det_cmd"])
                /\ UNCHANGED <<op_lock, agent_lock, result>>
           ELSE Finish(t, op_lock, agent_lock, RetNone(f))
    /\ UNCHANGED <<running_status, process, proc_state, last_probe>>

DetectCmdDone(t) ==
    /\ UNCHANGED NotSup
    /\ UNCHANGED proc_agent
    /\ stack[t] # <<>>
    /\ Top(t).op = "_detect" /\ Top(t).pc = "det_cmd"
    /\ \E verdict \in {"installed", "partial"} :
          install_status' = DetectCmdInstall(install_status, Top(t).agent, verdict)
    /\ Suspend(t, [Top(t) EXCEPT !.pc = "det_validate"])
    /\ UNCHANGED <<running_status, process, proc_state, op_lock, agent_lock, result,
                   last_probe>>

DetectValidated(t) ==
    /\ UNCHANGED NotSup
    /\ UNCHANGED proc_agent
    /\ stack[t] # <<>>
    /\ Top(t).op = "_detect" /\ Top(t).pc = "det_validate"
    /\ LET f == Top(t) IN
       \E ok \in BOOLEAN :
        /\ running_status' = DetectProbeRunning(running_status, f.agent, ok)
        /\ install_status' = DetectProbeInstall(install_status, f.agent, ok)
        /\ last_probe' = [last_probe EXCEPT ![f.agent] = ProbeOutcome(ok)]
        /\ Finish(t, op_lock, agent_lock, RetNone(f))
    /\ UNCHANGED <<process, proc_state>>

\* get_agent_status: wait_for's timeout (half the detect timeout) cancels
\* the detection task at its await; the caller goes on with stale data.
DetectTimeout(t) ==
    /\ UNCHANGED NotSup
    /\ UNCHANGED proc_agent
    /\ Len(stack[t]) >= 2
    /\ Top(t).op = "_detect" /\ Top(t).pc \in {"det_cmd", "det_validate"}
    /\ stack[t][2].op = "get_status"
    /\ stack' = [stack EXCEPT ![t] =
                    <<[stack[t][2] EXCEPT !.pc = "after_detect"]>> \o Tail(Tail(stack[t]))]
    /\ UNCHANGED <<install_status, running_status, process, proc_state, op_lock,
                   agent_lock, result, last_probe>>

\* get_agent_status: the agent lock is acquired and the detection task is
\* created.
GetStatusEnter(t) ==
    /\ UNCHANGED NotSup
    /\ UNCHANGED proc_agent
    /\ stack[t] # <<>>
    /\ Top(t).op = "get_status" /\ Top(t).pc = "acq_agent"
    /\ AgentLockFree(t)
    /\ agent_lock' = TakeAgent(t)
    /\ Await(t, [Top(t) EXCEPT !.pc = "await_detect"],
             Frame("_detect", Top(t).agent, "det_start"))
    /\ UNCHANGED <<install_status, running_status, process, proc_state, op_lock,
                   result, last_probe>>

\* get_agent_status after the detection: the handle is polled.
GetStatusAfterDetect(t) ==
    /\ UNCHANGED NotSup
    /\ UNCHANGED proc_agent
    /\ stack[t] # <<>>
    /\ Top(t).op = "get_status" /\ Top(t).pc = "after_detect"
    /\ LET f == Top(t)
           a == f.agent
           p == process[a]
       IN  IF p # NoProc /\ Alive(p)
           THEN /\ Suspend(t, [f EXCEPT !.pc = "validating"])
                /\ UNCHANGED <<running_status, process, op_lock, agent_lock, result>>
           ELSE IF p # NoProc
           THEN /\ running_status' = [running_status EXCEPT ![a] = "stopped"]
                /\ process' = [process EXCEPT ![a] = NoProc]
                /\ Finish(t, op_lock, agent_lock,
                          RetStatus(f, install_status[a], "stopped"))
           ELSE /\ Finish(t, op_lock, agent_lock,
                          RetStatus(f, install_status[a], running_status[a]))
                /\ UNCHANGED <<running_status, process>>
    /\ UNCHANGED <<install_status, proc_state, last_probe>>

\* get_agent_status: the probe of a live handle returns.
GetStatusValidated(t) ==
    /\ UNCHANGED NotSup
    /\ UNCHANGED proc_agent
    /\ stack[t] # <<>>
    /\ Top(t).op = "get_status" /\ Top(t).pc = "validating"
    /\ LET f == Top(t)
           a == f.agent
       IN  \E ok \in BOOLEAN :
            LET r == IF ok THEN "running" ELSE "unknown" IN
            /\ running_status' = [running_status EXCEPT ![a] = r]
            /\ last_probe' = [last_probe EXCEPT ![a] = ProbeOutcome(ok)]
            /\ Finish(t, op_lock, agent_lock, RetStatus(f, install_status[a], r))
    /\ UNCHANGED <<install_status, process, proc_state>>

\* install_agent: no lock is taken.  toolsOk: agentapi and the package
\* manager are available (or agentapi could be installed).
InstallEnter(t) ==
    /\ UNCHANGED NotSup
    /\ UNCHANGED proc_agent
    /\ stack[t] # <<>>
    /\ Top(t).op = "install" /\ Top(t).pc = "inst_start"
    /\ \E toolsOk \in BOOLEAN :
          IF toolsOk
          THEN /\ Suspend(t, [Top(t) EXCEPT !.pc = "inst_cmd"])
               /\ UNCHANGED <<op_lock, agent_lock, result>>
          ELSE Finish(t, op_lock, agent_lock, RetBool(Top(t), FALSE))
    /\ UNCHANGED <<install_status, running_status, process, proc_state, last_probe>>

\* _install_<agent>: the package manager returns; on success the agent is
\* detected again.
InstallCmdDone(t) ==
    /\ UNCHANGED NotSup
    /\ UNCHANGED proc_agent
    /\ stack[t] # <<>>
    /\ Top(t).op = "install" /\ Top(t).pc = "inst_cmd"
    /\ \E ok \in BOOLEAN :
          IF ok
          THEN /\ Await(t, [Top(t) EXCEPT !.pc = "await_detect"],
                        Frame("_detect", Top(t).agent, "det_start"))
               /\ UNCHANGED <<op_lock, agent_lock, result>>
          ELSE Finish(t, op_lock, agent_lock, RetBool(Top(t), FALSE))
    /\ UNCHANGED <<install_status, running_status, process, proc_state, last_probe>>

\* detect_agents, first phase, holding the category lock only: the status
\* endpoint answers.  seen is the agent the endpoint (or get_agent_type, or
\* the goose fallback) names, NoAgent when it names none or does not answer.
\* One detection task is then created per agent that is not RUNNING.
DetectAllProbed(t) ==
    /\ UNCHANGED NotSup
    /\ UNCHANGED proc_agent
    /\ stack[t] # <<>>
    /\ Top(t).op = "detect" /\ Top(t).pc = "probe"
    /\ \E seen \in Agents \cup {NoAgent} :
        LET f == Top(t)
            inst == IF seen = NoAgent THEN install_status
                    ELSE [install_status EXCEPT ![seen] = "installed"]
            run == IF seen = NoAgent THEN running_status
                   ELSE [running_status EXCEPT ![seen] = "running"]
            subs == [a \in Agents |-> IF run[a] = "running" THEN "none" ELSE "wait_lock"]
        IN  /\ install_status' = inst
            /\ running_status' = run
            /\ IF subs = NoSubs
               THEN Finish(t, op_lock, agent_lock, RetNone(f))
               ELSE /\ Suspend(t, [f EXCEPT !.pc = "gather", !.sub = subs])
                    /\ UNCHANGED <<op_lock, agent_lock, result>>
    /\ UNCHANGED <<process, proc_state, last_probe>>

InGather(t) == stack[t] # <<>> /\ Top(t).op = "detect" /\ Top(t).pc = "gather"

SetSub(t, a, v) == Suspend(t, [Top(t) EXCEPT !.sub[a] = v])

\* _detect_agent_with_timeout: async with self._agent_locks[agent_type].
DetectSubAcquire(t, a) ==
    /\ UNCHANGED NotSup
    /\ UNCHANGED proc_agent
    /\ InGather(t)
    /\ Top(t).sub[a] = "wait_lock"
    /\ agent_lock[a] = NoTask
    /\ agent_lock' = [agent_lock EXCEPT ![a] = t]
    /\ SetSub(t, a, "det_start")
    /\ UNCHANGED <<install_status, running_status, process, proc_state, op_lock,
                   result, last_probe>>

DetectSubEnter(t, a) ==
    /\ UNCHANGED NotSup
    /\ UNCHANGED proc_agent
    /\ InGather(t)
    /\ Top(t).sub[a] = "det_start"
    /\ \E apiInstalled \in BOOLEAN :
        /\ install_status' = DetectEntryInstall(install_status, a, apiInstalled)
        /\ IF apiInstalled
           THEN /\ SetSub(t, a, "det_cmd")
                /\ UNCHANGED agent_lock
           ELSE /\ SetSub(t, a, "done")
                /\ agent_lock' = [agent_lock EXCEPT ![a] = NoTask]
    /\ UNCHANGED <<running_status, process, proc_state, op_lock, result, last_probe>>

DetectSubCmdDone(t, a) ==
    /\ UNCHANGED NotSup
    /\ UNCHANGED proc_agent
    /\ InGather(t)
    /\ Top(t).sub[a] = "det_cmd"
    /\ \E verdict \in {"installed", "partial"} :
          install_status' = DetectCmdInstall(install_status, a, verdict)
    /\ SetSub(t, a, "det_validate")
    /\ UNCHANGED <<running_status, process, proc_state, op_lock, agent_lock, result,
                   last_probe>>

DetectSubValidated(t, a) ==
    /\ UNCHANGED NotSup
    /\ UNCHANGED proc_agent
    /\ InGather(t)
    /\ Top(t).sub[a] = "det_validate"
    /\ \E ok \in BOOLEAN :
        /\ running_status' = DetectProbeRunning(running_status, a, ok)
        /\ install_status' = DetectProbeInstall(install_status, a, ok)
        /\ last_probe' = [last_probe EXCEPT ![a] = ProbeOutcome(ok)]
    /\ SetSub(t, a, "done")
    /\ agent_lock' = [agent_lock EXCEPT ![a] = NoTask]
    /\ UNCHANGED <<process, proc_state, op_lock, result>>

\* _detect_agent_with_timeout: the per-agent timeout cancels the detection,
\* the lock is released and both statuses become UNKNOWN.
DetectSubTimeout(t, a) ==
    /\ UNCHANGED NotSup
    /\ UNCHANGED proc_agent
    /\ InGather(t)
    /\ Top(t).sub[a] \in {"det_cmd", "det_validate"}
    /\ install_status' = [install_status EXCEPT ![a] = "unknown"]
    /\ running_status' = [running_status EXCEPT ![a] = "unknown"]
    /\ SetSub(t, a, "timed_out")
    /\ agent_lock' = [agent_lock EXCEPT ![a] = NoTask]
    /\ UNCHANGED <<process, proc_state, op_lock, result, last_probe>>

\* A gather that re-raises the timeout of a detection task.
GatherReraises(f) ==
    IF \E a \in Agents : f.sub[a] = "timed_out"
    THEN Raise(f, "AgentDetectionError") ELSE RetNone(f)

\* gather(..., return_exceptions=True) over tasks that swallow their own
\* timeout: detect_agents goes on to its normal return.
GatherOutcome(f) == RetNone(f)

\* detect_agents: gather returns once every detection task is done.
DetectAllDone(t) ==
    /\ UNCHANGED NotSup
    /\ UNCHANGED proc_agent
    /\ InGather(t)
    /\ \A a \in Agents : Top(t).sub[a] \in {"none", "done", "timed_out"}
    /\ Finish(t, op_lock, agent_lock, GatherOutcome(Top(t)))
    /\ UNCHANGED <<install_status, running_status, process, proc_state, last_probe>>

\* detect_agents: the overall timeout.  The unfinished detection tasks are
\* cancelled (a cancelled task that holds its agent lock releases it), and
\* the TimeoutError raised is wrapped by the outer "except Exception".
DetectAllTimeout(t) ==
    /\ UNCHANGED NotSup
    /\ UNCHANGED proc_agent
    /\ InGather(t)
    /\ \E a \in Agents : Top(t).sub[a] \notin {"none", "done", "timed_out"}
    /\ Finish(t, op_lock,
              [a \in Agents |->
                  IF Top(t).sub[a] \in {"det_start", "det_cmd", "det_validate"}
                  THEN NoTask ELSE agent_lock[a]],
              Raise(Top(t), "AgentDetectionError"))
    /\ UNCHANGED <<install_status, running_status, process, proc_state, last_probe>>

\* ---------------------------------------------------------- environment
\* A subprocess exits on its own (a crash, or the pending SIGKILL lands).
ProcExit(p) ==
    /\ UNCHANGED NotSup
    /\ UNCHANGED proc_agent
    /\ Alive(p)
    /\ proc_state' = [proc_state EXCEPT ![p] = "exited"]
    /\ UNCHANGED <<install_status, running_status, process, op_lock, agent_lock,
                   stack, result, last_probe>>

\* ---------------------------------------------------------- cancellation
\* The coroutine is suspended in one of the two lock.acquire() calls of
\* _track_operation, which sit before its try block (or in the "async
\* with" of get_agent_status, before the lock is held).
WaitingForLock(f) == f.pc \in {"acq_op", "acq_agent"}

Cancelled(f) == [NoResult EXCEPT !.kind = "cancelled", !.op = f.op, !.agent = f.agent]

\* CancelledError travels up the call stack: a coroutine inside the try
\* block of _track_operation (or inside an "async with" on its agent lock)
\* runs its finally block and releases its locks; a coroutine still waiting
\* in an acquire releases nothing.
RECURSIVE CancelUnwind(_, _, _)
CancelUnwind(stk, opl, agl) ==
    IF stk = <<>> THEN [opl |-> opl, agl |-> agl]
    ELSE LET f == Head(stk) IN
         IF WaitingForLock(f) THEN CancelUnwind(Tail(stk), opl, agl)
         ELSE CancelUnwind(Tail(stk), ReleaseOp(opl, f), ReleaseAgent(agl, f))

\* Task t is suspended in an await: lock.acquire() suspends only while
\* the lock is held (a free lock is taken without a suspension); every
\* other position of a coroutine is an await of a probe, a command, a
\* sleep or a nested coroutine.
Suspended(t) ==
    /\ stack[t] # <<>>
    /\ Top(t).pc = "acq_op" => op_lock[Top(t).op] # NoTask
    /\ Top(t).pc = "acq_agent" => agent_lock[Top(t).agent] # NoTask

\* The task running a public operation is cancelled at the await it is
\* suspended in (the caller of the tool gave up, or the server shuts down).
\* No handler of the supervisor catches CancelledError: nothing but the
\* locks changes, and a subprocess the operation spawned stays as it is.
Cancel(t) ==
    /\ UNCHANGED NotSup
    /\ UNCHANGED proc_agent
    /\ Suspended(t)
    /\ stack[t][Len(stack[t])].op \in {"start", "stop", "restart", "switch", "get_status"}
    /\ LET u == CancelUnwind(stack[t], op_lock, agent_lock) IN
        /\ stack' = [stack EXCEPT ![t] = <<>>]
        /\ op_lock' = u.opl
        /\ agent_lock' = u.agl
        /\ result' = [result EXCEPT ![t] = Cancelled(stack[t][Len(stack[t])])]
    /\ UNCHANGED <<install_status, running_status, process, proc_state, last_probe>>

\* --------------------------------------------------------- event buffer
\* An event of the stream: the SSE type, the SSE id and the id inside the
\* data (strings, as sequences of characters; <<>> when absent), the
\* status of a status_change, the text of the data (message, screen or
\* anything else) split into its first 1000 characters and the rest,
\* the time.time() reading taken when the event was built, and whether
\* the id inside the data is a JSON number (mid is then its decimal form).
Event(type, id, mid, status, head, tail) ==
    [type |-> type, id |-> id, mid |-> mid, status |-> status, head |-> head,
     tail |-> tail, ts |-> 0, num |-> FALSE]

\* A message_update as monitor_messages and the initial state build it:
\* "id" is str(message["id"]).
MessageUpdate(id, head, tail) ==
    [Event("message_update", id, id, "", head, tail) EXCEPT !.num = TRUE]

\* A message_update as stream_events builds it from an SSE event without
\* an "id:" line: "id" is None and the data is the parsed JSON, whose "id"
\* is a number.
StreamedUpdate(mid, head) ==
    [Event("message_update", <<>>, mid, "", head, "") EXCEPT !.num = TRUE]

\* A status_change as monitor_agent_status builds it: it has no "id".
StatusChange(status) == Event("status_change", <<>>, <<>>, status, "", "")

DigitChars == <<"0", "1", "2", "3", "4", "5", "6", "7", "8", "9">>

\* str.isdigit(), on a string of ASCII characters; false on "".
IsDigit(str) ==
    /\ str # <<>>
    /\ \A i \in DOMAIN str : \E k \in DOMAIN DigitChars : DigitChars[k] = str[i]

DigitVal(c) == (CHOOSE k \in DOMAIN DigitChars : DigitChars[k] = c) - 1

\* A sort that leaves the buffer in its order of arrival.
Unsorted(events) == events

\* int(str) of a string of digits.
RECURSIVE ToInt(_)
ToInt(str) ==
    IF str = <<>> THEN 0
    ELSE 10 * ToInt(SubSeq(str, 1, Len(str) - 1)) + DigitVal(str[Len(str)])

\* str(n) of a natural number.
RECURSIVE ToStr(_)
ToStr(n) ==
    IF n < 10 THEN <<DigitChars[n + 1]>>
    ELSE ToStr(n \div 10) \o <<DigitChars[(n % 10) + 1]>>

\* e.get("type") == "message_update" and e.get("id") and e.get("id").isdigit()
NumericMessage(e) == e.type = "message_update" /\ IsDigit(e.id)

IsScreen(e) == e.type \in {"screen_update", "screen"}

\* A sort key that puts the newest first among the events of the last
\* priority as well.
NewestFirstKey(e) ==
    << IF e.type = "status_change" THEN 0
       ELSE IF NumericMessage(e) THEN 1
       ELSE IF IsScreen(e) THEN 2 ELSE 3,
       IF e.type = "status_change" THEN 0 - e.ts ELSE 0,
       IF NumericMessage(e) THEN ToInt(e.id) ELSE 0,
       IF IsScreen(e) THEN 0 - e.ts ELSE 0,
       0 - e.ts >>

\* The key of event_buffer.sort: priority, then newest status first, then
\* the numeric message id, then newest screen first, then the timestamp.
SortKey(e) ==
    << IF e.type = "status_change" THEN 0
       ELSE IF NumericMessage(e) THEN 1
       ELSE IF IsScreen(e) THEN 2 ELSE 3,
       IF e.type = "status_change" THEN 0 - e.ts ELSE 0,
       IF NumericMessage(e) THEN ToInt(e.id) ELSE 0,
       IF IsScreen(e) THEN 0 - e.ts ELSE 0,
       e.ts >>

\* Python's order on tuples of numbers.
TupleLess(a, b) ==
    \E i \in DOMAIN a : a[i] < b[i] /\ \A j \in 1..(i - 1) : a[j] = b[j]

\* list.sort is stable: an event goes behind every event whose key is not
\* greater than its own.
RECURSIVE InsertByKey(_, _)
InsertByKey(sorted, e) ==
    IF sorted = <<>> THEN <<e>>
    ELSE IF TupleLess(SortKey(e), SortKey(Head(sorted))) THEN <<e>> \o sorted
    ELSE <<Head(sorted)>> \o InsertByKey(Tail(sorted), e)

RECURSIVE SortEvents(_)
SortEvents(events) ==
    IF events = <<>> THEN <<>>
    ELSE InsertByKey(SortEvents(SubSeq(events, 1, Len(events) - 1)),
                     events[Len(events)])

\* int(timestamp): the whole seconds of a reading in half-second ticks.
WholeSeconds(ts) == ts \div 2

\* The deduplication key.  hash() is taken to be free of collisions on the
\* strings it is given; message and screen texts are cut to their first
\* 1000 characters before they are hashed.  A screen's bucket of 100 ms
\* tells any two ticks apart.
EventKey(e) ==
    IF e.type = "message_update"
    THEN [type |-> e.type, id |-> IF e.id # <<>> THEN e.id ELSE e.mid,
          text |-> e.head, rest |-> "", bucket |-> 0]
    ELSE IF e.type = "status_change"
    THEN [type |-> e.type, id |-> <<>>, text |-> e.status, rest |-> "",
          bucket |-> WholeSeconds(e.ts)]
    ELSE IF IsScreen(e)
    THEN [type |-> e.type, id |-> <<>>, text |-> e.head, rest |-> "",
          bucket |-> e.ts]
    ELSE [type |-> e.type, id |-> <<>>, text |-> e.head, rest |-> e.tail,
          bucket |-> 0]

\* A deduplication loop that lets screen_update events through.
RECURSIVE KeepScreens(_, _)
KeepScreens(events, seen_events) ==
    IF events = <<>> THEN <<>>
    ELSE LET e == Head(events) IN
         IF EventKey(e) \in seen_events
         THEN KeepScreens(Tail(events), seen_events)
         ELSE <<e>> \o KeepScreens(Tail(events), seen_events \cup {EventKey(e)})

\* An event as stream_events builds it from an SSE event without an "id:"
\* line whose data is a JSON object with a "screen" text.
ScreenEvent(type, screen) == Event(type, <<>>, <<>>, "", screen, "")

\* The deduplication loop: screen_update events are filtered out, and of
\* the events with one key the first is kept.
RECURSIVE Deduplicate(_, _)
Deduplicate(events, seen_events) ==
    IF events = <<>> THEN <<>>
    ELSE LET e == Head(events) IN
         IF e.type = "screen_update" \/ EventKey(e) \in seen_events
         THEN Deduplicate(Tail(events), seen_events)
         ELSE <<e>> \o Deduplicate(Tail(events), seen_events \cup {EventKey(e)})

\* An event list that grows without bound.
AppendOnly(buffer, e) == Append(buffer, e)

\* The body of buffer_event under the buffer lock: at capacity the oldest
\* event is popped, then the event is appended.
BufferEvent(buffer, e) ==
    IF Len(buffer) >= max_buffer_size THEN Append(Tail(buffer), e)
    ELSE Append(buffer, e)

\* time.time() moves on.
Tick ==
    /\ UNCHANGED NotStream
    /\ clock < MaxClock
    /\ clock' = clock + 1
    /\ UNCHANGED <<event_buffer, events_to_process, sent, batch_in, last_event_id,
                   error_count, overflows, arrived>>

\* An event is built (by the SSE reader or a poller) and handed to
\* buffer_event.
Arrive(e) ==
    /\ UNCHANGED NotStream
    /\ arrived < MaxArrivals
    /\ arrived' = arrived + 1
    /\ event_buffer' = BufferEvent(event_buffer, [e EXCEPT !.ts = clock])
    /\ overflows' = IF Len(event_buffer) >= max_buffer_size THEN overflows + 1
                    ELSE overflows
    /\ UNCHANGED <<events_to_process, sent, batch_in, last_event_id, error_count,
                   clock>>

\* process_event_buffer at the top of its loop, under the buffer lock: the
\* buffer is sorted, deduplicated and cleared.
Drain ==
    /\ UNCHANGED NotStream
    /\ batch_in = <<>>
    /\ event_buffer # <<>>
    /\ events_to_process' = Deduplicate(SortEvents(event_buffer), {})
    /\ batch_in' = event_buffer
    /\ sent' = <<>>
    /\ event_buffer' = <<>>
    /\ UNCHANGED <<last_event_id, error_count, overflows, arrived, clock>>

\* event.get("data", {}).get("id") as a condition: the number 0 and the
\* empty string are false.
DataIdTruthy(e) == IF e.num THEN ToInt(e.mid) # 0 ELSE e.mid # <<>>

\* The watermark after a successful notify of e.
Watermark(last, e) ==
    LET higher(n) == last = <<>> \/ n > ToInt(last) IN
    IF IsDigit(e.id)
    THEN IF higher(ToInt(e.id)) THEN ToStr(ToInt(e.id)) ELSE last
    ELSE IF e.type = "message_update" /\ DataIdTruthy(e) /\ IsDigit(e.mid)
    THEN IF higher(ToInt(e.mid)) THEN e.mid ELSE last
    ELSE last

\* A dispatcher that gives up the batch in hand when a notify raises.
AbortBatch(rest, ok) == IF ok THEN rest ELSE <<>>

\* The for loop over events_to_process: the except clause ends the
\* iteration of one event, and the loop goes on with the events left.
AfterNotify(rest, ok) == rest

\* process_event_buffer, outside the lock: server.notify of the next
\* event of the batch returns (ok) or raises.
Dispatch ==
    /\ UNCHANGED NotStream
    /\ events_to_process # <<>>
    /\ LET e == Head(events_to_process) IN
       \E ok \in BOOLEAN :
        /\ ~ok => error_count < MaxNotifyErrors
        /\ sent' = Append(sent, [event |-> e, ok |-> ok])
        /\ events_to_process' = AfterNotify(Tail(events_to_process), ok)
        /\ last_event_id' = IF ok THEN Watermark(last_event_id, e) ELSE last_event_id
        /\ error_count' = IF ok THEN error_count ELSE error_count + 1
    /\ UNCHANGED <<event_buffer, batch_in, overflows, arrived, clock>>

\* process_event_buffer: the batch is through, the sleep that ends the
\* iteration returns.
NextBatch ==
    /\ UNCHANGED NotStream
    /\ batch_in # <<>>
    /\ events_to_process = <<>>
    /\ batch_in' = <<>>
    /\ sent' = <<>>
    /\ UNCHANGED <<event_buffer, events_to_process, last_event_id, error_count,
                   overflows, arrived, clock>>

\* stream_events_to_mcp before its tasks are created.
StreamInit ==
    /\ event_buffer = <<>>
    /\ events_to_process = <<>>
    /\ sent = <<>>
    /\ batch_in = <<>>
    /\ last_event_id = <<>>
    /\ error_count = 0
    /\ overflows = 0
    /\ arrived = 0
    /\ clock = 0

\* --------------------------------------------------------- event stream
NoRequest == [sent |-> FALSE, id |-> <<>>, again |-> FALSE, seen |-> <<>>,
              delayed |-> FALSE]

\* stream_events_to_mcp calls stream_events: the URL and the headers are
\* built once, before the connection loop, from the last_event_id argument.
StreamCall ==
    /\ UNCHANGED NotConn
    /\ conn = "idle"
    /\ conn' = "connecting"
    /\ attempt' = 0
    /\ delay' = 0
    /\ request_id' = last_event_id
    /\ reconnecting' = FALSE
    /\ UNCHANGED <<last_request, streamVars>>

\* A connection loop that sleeps and retries after every error.
RetryForever(n) == "backoff"

\* The except branches of the connection loop: the attempt is counted;
\* past max_reconnect_attempts AgentAPIError is raised, otherwise the delay
\* grows and the loop sleeps.
AfterError(n) == IF n + 1 > max_reconnect_attempts THEN "failed" ELSE "backoff"

\* http_client.stream("GET", url, headers): the request goes out with the
\* headers built at the call.  It is answered (ok: the counter and the
\* delay are reset) or fails with a transport error.  The request notes
\* what it carried, whether it was a reconnection, the watermark at that
\* moment and whether a sleep preceded it.
Connect ==
    /\ UNCHANGED NotConn
    /\ conn = "connecting"
    /\ last_request' = [sent |-> TRUE, id |-> request_id, again |-> reconnecting,
                        seen |-> last_event_id,
                        delayed |-> ~reconnecting \/ last_request.delayed]
    /\ \E ok \in BOOLEAN :
          IF ok
          THEN /\ conn' = "open"
               /\ attempt' = 0
               /\ delay' = 0
               /\ UNCHANGED reconnecting
          ELSE /\ conn' = AfterError(attempt)
               /\ attempt' = attempt + 1
               /\ delay' = IF AfterError(attempt) = "backoff" THEN delay + 1 ELSE delay
               /\ reconnecting' = TRUE
    /\ UNCHANGED <<request_id, streamVars>>

\* The open stream breaks with a transport error.
StreamDrop ==
    /\ UNCHANGED NotConn
    /\ conn = "open"
    /\ conn' = AfterError(attempt)
    /\ attempt' = attempt + 1
    /\ delay' = IF AfterError(attempt) = "backoff" THEN delay + 1 ELSE delay
    /\ reconnecting' = TRUE
    /\ UNCHANGED <<request_id, last_request, streamVars>>

\* The upstream ends the stream cleanly: aiter_lines is exhausted and the
\* while loop connects again at once.
StreamEnd ==
    /\ UNCHANGED NotConn
    /\ conn = "open"
    /\ conn' = "connecting"
    /\ reconnecting' = TRUE
    /\ last_request' = [last_request EXCEPT !.delayed = FALSE]
    /\ UNCHANGED <<attempt, delay, request_id, streamVars>>

\* asyncio.sleep(actual_delay) returns.
BackoffDone ==
    /\ UNCHANGED NotConn
    /\ conn = "backoff"
    /\ conn' = "connecting"
    /\ last_request' = [last_request EXCEPT !.delayed = TRUE]
    /\ UNCHANGED <<attempt, delay, request_id, reconnecting, streamVars>>

\* An event read from the open stream is handed to the callback,
\* buffer_event.
Receive(e) ==
    /\ UNCHANGED NotStream
    /\ conn = "open"
    /\ arrived < MaxArrivals
    /\ arrived' = arrived + 1
    /\ event_buffer' = BufferEvent(event_buffer, [e EXCEPT !.ts = clock])
    /\ overflows' = IF Len(event_buffer) >= max_buffer_size THEN overflows + 1
                    ELSE overflows
    /\ UNCHANGED <<events_to_process, sent, batch_in, last_event_id, error_count,
                   clock>>

\* stream_events raised: stream_events_to_mcp cancels its tasks, clears
\* the buffer and raises; start_event_stream sleeps and starts a new
\* stream_events_to_mcp, whose locals are fresh.
StreamRestart ==
    /\ UNCHANGED NotConn
    /\ conn = "failed"
    /\ conn' = "idle"
    /\ event_buffer' = <<>>
    /\ events_to_process' = <<>>
    /\ sent' = <<>>
    /\ batch_in' = <<>>
    /\ last_event_id' = <<>>
    /\ error_count' = 0
    /\ UNCHANGED <<attempt, delay, request_id, reconnecting, last_request, overflows,
                   arrived, clock>>

ConnInit ==
    /\ conn = "idle"
    /\ attempt = 0
    /\ delay = 0
    /\ request_id = <<>>
    /\ reconnecting = FALSE
    /\ last_request = NoRequest

\* ------------------------------------------------------ resource manager
NoHandleYet == 0

\* The (registry, key) pairs, in the order cleanup_all walks them: the
\* processes, then the tasks, then the custom resources.
Slots ==
    << <<"process", "a">>, <<"process", "b">>, <<"task", "a">>, <<"task", "b">>,
       <<"custom", "a">>, <<"custom", "b">> >>

SlotSet == {Slots[i] : i \in DOMAIN Slots}

\* A registry test that finds no key.
NeverRegistered(slot) == FALSE

\* `key in self._processes` (or _tasks, or _custom_resources).
Registered(slot) == registry[slot] # NoHandleYet

\* The keys of the three registries that are present, in walking order.
RECURSIVE Snapshot(_)
Snapshot(i) ==
    IF i > Len(Slots) THEN <<>>
    ELSE (IF registry[Slots[i]] # NoHandleYet THEN <<Slots[i]>> ELSE <<>>)
         \o Snapshot(i + 1)

\* register_process, register_task, register_custom_resource: a caller
\* registers a handle it has just created.
Register(slot) ==
    /\ UNCHANGED NotRm
    /\ handles < MaxHandles
    /\ handles' = handles + 1
    /\ LET h == handles + 1 IN
       IF Registered(slot)
       THEN /\ reg_result' = [slot |-> slot, handle |-> h, error |-> TRUE]
            /\ UNCHANGED registry
       ELSE /\ reg_result' = [slot |-> slot, handle |-> h, error |-> FALSE]
            /\ registry' = [registry EXCEPT ![slot] = h]
    /\ UNCHANGED cleanup

\* unregister_process, unregister_task, unregister_custom_resource of a
\* registered key: the handle leaves the registry without being torn down.
Unregister(slot) ==
    /\ UNCHANGED NotRm
    /\ registry[slot] # NoHandleYet
    /\ registry' = [registry EXCEPT ![slot] = NoHandleYet]
    /\ cleanup' = [cleanup EXCEPT !.released = @ \cup {<<slot, registry[slot]>>}]
    /\ UNCHANGED <<handles, reg_result>>

\* The loops of cleanup_all are over when no key is left, and it returns.
PcAfter(todo) == IF todo = <<>> THEN "returned" ELSE "running"

\* cleanup_all up to the end of its snapshot.
CleanupAllEnter ==
    /\ UNCHANGED NotRm
    /\ cleanup.pc = "idle"
    /\ cleanup' = [pc |-> PcAfter(Snapshot(1)),
                   snapshot |-> {<<sl, registry[sl]>> :
                                    sl \in {x \in SlotSet : registry[x] # NoHandleYet}},
                   todo |-> Snapshot(1), torn |-> <<>>, released |-> {}]
    /\ UNCHANGED <<registry, handles, reg_result>>

\* A cleanup_all that gives up at the first teardown that raises.
AbortOnRaise(todo, raised) == IF raised THEN <<>> ELSE Tail(todo)

\* cleanup_all's loops: the `except Exception` around each teardown logs
\* the error and the loop goes on with the next key.
AfterTeardown(todo, raised) == Tail(todo)

\* One iteration of cleanup_all's loops: stop_process, cancel_task or
\* cleanup_custom_resource of the next key of the snapshot.  A key that
\* has been unregistered meanwhile makes the call raise ResourceError; the
\* teardown of a registered one succeeds or raises an Exception, and the
\* key is deleted from its registry in both cases.
CleanupOne ==
    /\ UNCHANGED NotRm
    /\ cleanup.pc = "running"
    /\ cleanup.todo # <<>>
    /\ LET slot == Head(cleanup.todo) IN
       IF registry[slot] = NoHandleYet
       THEN /\ cleanup' = [cleanup EXCEPT
                   !.todo = AfterTeardown(@, TRUE),
                   !.pc = PcAfter(AfterTeardown(cleanup.todo, TRUE))]
            /\ UNCHANGED registry
       ELSE \E raised \in BOOLEAN :
            /\ cleanup' = [cleanup EXCEPT
                   !.todo = AfterTeardown(@, raised),
                   !.pc = PcAfter(AfterTeardown(cleanup.todo, raised)),
                   !.torn = Append(@, [slot |-> slot, handle |-> registry[slot],
                                       raised |-> raised])]
            /\ registry' = [registry EXCEPT ![slot] = NoHandleYet]
    /\ UNCHANGED <<handles, reg_result>>

RmInit ==
    /\ registry = [sl \in SlotSet |-> NoHandleYet]
    /\ handles = 0
    /\ reg_result = [slot |-> Slots[1], handle |-> NoHandleYet, error |-> FALSE]
    /\ cleanup = [pc |-> "idle", snapshot |-> {}, todo |-> <<>>, torn |-> <<>>,
                  released |-> {}]

\* ---------------------------------------------------------------- monitor
max_failures == 5
initial_interval == 50
max_interval == 600

Min(x, y) == IF x < y THEN x ELSE y

\* check_interval * backoff_factor, capped.
Backoff(interval) == Min((interval * 3) \div 2, max_interval)

\* monitor_agent(agent, auto_reconnect) up to the head of its loop.
MonitorCall(auto_reconnect) ==
    /\ UNCHANGED NotMonitor
    /\ monitor.pc = "idle"
    /\ monitor' = [monitor EXCEPT !.pc = "check", !.auto_reconnect = auto_reconnect]

\* The head of the loop: the status check.  get_agent_status returns the
\* running status, which resets consecutive_failures, or raises, which
\* counts as a failure and reads as UNKNOWN.
MonitorCheck ==
    /\ UNCHANGED NotMonitor
    /\ monitor.pc = "check"
    /\ \E how \in {"running", "not_running", "raises"} :
          monitor' = [monitor EXCEPT
              !.running = (how = "running"),
              !.consecutive_failures = IF how = "raises" THEN @ + 1 ELSE 0,
              !.pc = IF how # "running" /\ monitor.auto_reconnect
                     THEN "restart" ELSE "wait"]

\* The restart attempt: start_agent returns a process, returns None or
\* raises.
MonitorRestart ==
    /\ UNCHANGED NotMonitor
    /\ monitor.pc = "restart"
    /\ \E ok \in BOOLEAN :
          monitor' = [monitor EXCEPT
              !.consecutive_failures = IF ok THEN 0 ELSE @ + 1,
              !.check_interval = IF ok THEN initial_interval ELSE @,
              !.failed_restarts = IF ok THEN 0 ELSE Min(@ + 1, max_failures),
              !.pc = "wait"]

\* The tail of the loop: the interval grows after a failure, the loop
\* ends at max_failures consecutive failures, and sleeps otherwise.
MonitorWait ==
    /\ UNCHANGED NotMonitor
    /\ monitor.pc = "wait"
    /\ monitor' = [monitor EXCEPT
          !.check_interval = IF monitor.consecutive_failures > 0
                             THEN Backoff(@) ELSE @,
          !.pc = IF monitor.consecutive_failures >= max_failures
                 THEN "stopped" ELSE "check"]

MonitorInit ==
    monitor = [pc |-> "idle", auto_reconnect |-> FALSE, consecutive_failures |-> 0,
               check_interval |-> initial_interval, running |-> FALSE,
               failed_restarts |-> 0]

\* ----------------------------------------------------------- make_request
\* What one HTTP request comes back with: a response with a status code and
\* a body that parses or not, a timeout, or another transport error.
Responses ==
    [kind : {"response"}, code : {200, 404, 429, 503}, json : {TRUE}]
    \cup {[kind |-> "response", code |-> 200, json |-> FALSE],
          [kind |-> "timeout", code |-> 0, json |-> FALSE],
          [kind |-> "request_error", code |-> 0, json |-> FALSE]}

\* The default retry_for_statuses.
Retryable(r) ==
    \/ r.kind = "response" /\ r.code \in {429, 500, 502, 503, 504}
    \/ r.kind \in {"timeout", "request_error"}

\* An attempt test that allows one request more.
OneMoreAttempt(n, retry_attempts) == n > retry_attempts

\* last_attempt = attempt >= retry_attempts
LastAttempt(n, retry_attempts) == n >= retry_attempts

\* make_request(..., retry_attempts) up to the head of its loop.
RequestCall(retry_attempts) ==
    /\ UNCHANGED NotRequest
    /\ request.pc = "idle"
    /\ request' = [request EXCEPT !.pc = "sending", !.retry_attempts = retry_attempts]

\* One round of the loop: the attempt is counted and the HTTP request is
\* issued.  A retryable outcome before the last attempt leads to the
\* sleep; a 2xx response whose body parses is returned; everything else is
\* raised: HTTPStatusError as AgentAPIError with the status code, a timeout
\* as TimeoutError, a transport error or a body that does not parse as
\* AgentAPIError without a status code.
RequestAttempt ==
    /\ UNCHANGED NotRequest
    /\ request.pc = "sending"
    /\ \E r \in Responses :
        LET n == request.attempt + 1
            last == LastAttempt(n, request.retry_attempts)
            req == [request EXCEPT !.attempt = n, !.outcomes = Append(@, r)]
        IN  request' =
              IF Retryable(r) /\ ~last
              THEN [req EXCEPT !.pc = "sleeping"]
              ELSE IF r.kind = "response" /\ r.code = 200
              THEN IF r.json THEN [req EXCEPT !.pc = "returned"]
                   ELSE [req EXCEPT !.pc = "raised", !.error = "AgentAPIError"]
              ELSE IF r.kind = "response"
              THEN [req EXCEPT !.pc = "raised", !.error = "AgentAPIError",
                               !.status_code = r.code]
              ELSE IF r.kind = "timeout"
              THEN [req EXCEPT !.pc = "raised", !.error = "TimeoutError"]
              ELSE [req EXCEPT !.pc = "raised", !.error = "AgentAPIError"]

\* The backoff sleep is over and the loop goes round.
RequestRetry ==
    /\ UNCHANGED NotRequest
    /\ request.pc = "sleeping"
    /\ request' = [request EXCEPT !.pc = "sending"]

RequestInit ==
    request = [pc |-> "idle", retry_attempts |-> 0, attempt |-> 0, outcomes |-> <<>>,
               error |-> "none", status_code |-> 0]

\* ---------------------------------------------------------- event emitter
\* max_event_age, in check intervals.
max_event_age == 2

\* A health test that only looks at the task.
TaskNotRunning(e) == e.stream_task # "running"

\* _run_health_checks: the stream is restarted when its task is not
\* running or when an event was recorded once and none for longer than
\* max_event_age.
Unhealthy(e) ==
    \/ e.stream_task # "running"
    \/ e.had_event /\ e.quiet > max_event_age

\* start_background_stream: a task is created that will take the lock and
\* start the stream.
StartBackgroundStream ==
    /\ UNCHANGED NotEmitter
    /\ emitter.active
    /\ emitter.stream_task = "none"
    /\ ~emitter.pending
    /\ emitter' = [emitter EXCEPT !.pending = TRUE]

\* _acquire_lock_and_start: a previous stream task is cancelled and waited
\* for, and unless the emitter was stopped a new stream task is created,
\* and the health check task if none runs.
AcquireLockAndStart ==
    /\ UNCHANGED NotEmitter
    /\ emitter.pending
    /\ emitter' =
          IF emitter.active
          THEN [emitter EXCEPT !.pending = FALSE, !.stream_task = "running",
                               !.fresh = TRUE, !.health_check_task = TRUE]
          ELSE [emitter EXCEPT !.pending = FALSE,
                               !.stream_task = IF @ = "running" THEN "done" ELSE @]

\* record_event_processed: the stream task has processed an event.
RecordEventProcessed ==
    /\ UNCHANGED NotEmitter
    /\ emitter.stream_task = "running"
    /\ emitter' = [emitter EXCEPT !.had_event = TRUE, !.quiet = 0]

\* The stream task ends: start_event_stream's call failed, in which case
\* it asks for a restart itself while the emitter is active, or the task
\* was cancelled from outside.
StreamTaskEnds ==
    /\ UNCHANGED NotEmitter
    /\ emitter.stream_task = "running"
    /\ \E failed \in BOOLEAN :
          emitter' = [emitter EXCEPT
              !.stream_task = "done",
              !.pending = @ \/ (failed /\ emitter.active)]

\* _run_health_checks: the screen stream is restarted when
\* _last_screen_update_time > 0 and its task is not running.
ScreenUnhealthy(e) == e.screen_time /\ e.screen_task # "running"

\* start_background_screen_stream: a task is created that will take the
\* lock and start the screen stream.
StartBackgroundScreenStream ==
    /\ UNCHANGED NotEmitter
    /\ emitter.active
    /\ emitter.screen_task = "none"
    /\ ~emitter.screen_pending
    /\ emitter' = [emitter EXCEPT !.screen_pending = TRUE]

\* start_background_screen_stream._acquire_lock_and_start: a previous
\* screen task is cancelled and waited for, and unless the emitter was
\* stopped a new one is created.
AcquireLockAndStartScreen ==
    /\ UNCHANGED NotEmitter
    /\ emitter.screen_pending
    /\ emitter' =
          IF emitter.active
          THEN [emitter EXCEPT !.screen_pending = FALSE, !.screen_task = "running",
                               !.screen_fresh = TRUE]
          ELSE [emitter EXCEPT !.screen_pending = FALSE,
                               !.screen_task = IF @ = "running" THEN "done" ELSE @]

\* stream_screen_to_mcp.process_screen_update: a screen update is sent to
\* the sink and the emitter's record_event_processed is called.
ProcessScreenUpdate ==
    /\ UNCHANGED NotEmitter
    /\ emitter.screen_task = "running"
    /\ emitter' = [emitter EXCEPT !.screen_delivered = TRUE,
                                  !.had_event = TRUE, !.quiet = 0]

\* The screen task ends: stream_screen_to_mcp raised, in which case
\* start_screen_stream asks for a restart itself while the emitter is
\* active; or it raised with status 404 and start_screen_stream returns;
\* or it returned (the stream ended, or a cancellation was swallowed).
ScreenTaskEnds ==
    /\ UNCHANGED NotEmitter
    /\ emitter.screen_task = "running"
    /\ \E how \in {"failed", "not_found", "returned"} :
          emitter' = [emitter EXCEPT
              !.screen_task = "done",
              !.screen_pending = @ \/ (how = "failed" /\ emitter.active)]

\* One round of _run_health_checks: a check interval has passed; an
\* unhealthy stream has its task cancelled and start_background_stream is
\* called, and likewise for the screen stream.
HealthCheck ==
    /\ UNCHANGED NotEmitter
    /\ emitter.health_check_task
    /\ emitter.active
    /\ LET now == [emitter EXCEPT !.quiet = Min(@ + 1, max_event_age + 1),
                                  !.fresh = FALSE,
                                  !.screen_fresh = FALSE,
                                  !.last_health_check = 1 - @]
           ev == IF Unhealthy(now)
                 THEN [now EXCEPT !.stream_task = "done", !.pending = TRUE]
                 ELSE now
       IN  emitter' =
             IF ScreenUnhealthy(ev)
             THEN [ev EXCEPT !.screen_task = "done", !.screen_pending = TRUE]
             ELSE ev

\* stop: the emitter is deactivated and its tasks are cancelled.
EmitterStop ==
    /\ UNCHANGED NotEmitter
    /\ emitter.active
    /\ emitter' = [emitter EXCEPT !.active = FALSE, !.health_check_task = FALSE,
                                  !.stream_task = "none", !.screen_task = "none"]

EmitterInit ==
    emitter = [active |-> TRUE, stream_task |-> "none", fresh |-> FALSE,
               health_check_task |-> FALSE, pending |-> FALSE, had_event |-> FALSE,
               quiet |-> 0, last_health_check |-> 0,
               screen_task |-> "none", screen_pending |-> FALSE,
               screen_fresh |-> FALSE, screen_time |-> FALSE,
               screen_delivered |-> FALSE]

\* ------------------------------------------------ event emitter's tasks
\* The emitter's tasks one by one. A task is named by its position in
\* bridge.tasks; NoBridgeTask stands for None.
NoBridgeTask == 0

Streams == {"event", "screen"}

\* The key a stream's task is registered under.
TaskKey(w) == IF w = "event" THEN "event_stream" ELSE "screen_stream"

\* The emitter's keys in the order in which they enter
\* ResourceManager._tasks.
BridgeKeys == <<"event_stream", "screen_stream", "event_health_check">>

\* A task as asyncio.create_task returns it. A launcher is the coroutine
\* _acquire_lock_and_start, a stream start_event_stream or
\* start_screen_stream, a health task _run_health_checks.
BridgeTask(kind, w, pc) ==
    [kind |-> kind, w |-> w, pc |-> pc, cancel |-> FALSE, target |-> NoBridgeTask]

\* task is None or task.done(); a launcher that returned None is "refused".
TaskDone(b, i) == i # NoBridgeTask => b.tasks[i].pc \in {"done", "refused"}

\* task.cancel(): without effect on a task that is done.
RequestCancel(b, i) ==
    IF TaskDone(b, i) THEN b ELSE [b EXCEPT !.tasks[i].cancel = TRUE]

\* asyncio.create_task.
Spawn(b, task) == [b EXCEPT !.tasks = Append(@, task)]

Room(b, n) == Len(b.tasks) + n <= MaxBridgeTasks

\* self._lock is held by stop() while it waits, and by a launcher between
\* its acquisition and its end.
Locked(b) ==
    \/ b.stop = "wait"
    \/ \E i \in DOMAIN b.tasks :
          b.tasks[i].kind = "launcher" /\ b.tasks[i].pc \in {"wait", "reg"}

\* ResourceManager._lock is held by cancel_task while it waits for the
\* task it cancelled.
RMBusy(b) == b.cleaning = "wait"

\* register_task as the emitter calls it: the ResourceError of a key that
\* is already registered is caught and logged.
RegisterTask(b, key, i) ==
    IF b.tracked[key] = NoBridgeTask THEN [b EXCEPT !.tracked[key] = i] ELSE b

\* _acquire_lock_and_start from the registration of the stream task on:
\* the health check task is created if none runs (event stream only), and
\* the lock is released.
LaunchRegister(b, t) ==
    LET w == b.tasks[t].w
        r == RegisterTask(b, TaskKey(w), b.field[w])
        h == IF w = "event" /\ TaskDone(r, r.health_check_task)
             THEN LET s == Spawn(r, BridgeTask("health", "event", "sleep"))
                  IN  RegisterTask([s EXCEPT !.health_check_task = Len(s.tasks)],
                                   "event_health_check", Len(s.tasks))
             ELSE r
    IN  [h EXCEPT !.tasks[t].pc = "done"]

\* A launcher that creates the stream task whether or not the emitter is
\* active.
LaunchWhenInactive(b, t) ==
    LET w == b.tasks[t].w
        s == Spawn(b, BridgeTask("stream", w, "streaming"))
        c == [s EXCEPT !.field[w] = Len(s.tasks)]
    IN  IF RMBusy(c) THEN [c EXCEPT !.tasks[t].pc = "reg"] ELSE LaunchRegister(c, t)

\* _acquire_lock_and_start after the previous task is done: nothing is
\* started when the emitter is not active; otherwise the stream task is
\* created and registered (the launcher waits for the manager's lock
\* while cancel_task holds it).
LaunchCreate(b, t) ==
    IF ~b.active THEN [b EXCEPT !.tasks[t].pc = "refused"]
    ELSE LET w == b.tasks[t].w
             s == Spawn(b, BridgeTask("stream", w, "streaming"))
             c == [s EXCEPT !.field[w] = Len(s.tasks)]
         IN  IF RMBusy(c) THEN [c EXCEPT !.tasks[t].pc = "reg"]
             ELSE LaunchRegister(c, t)

\* A launcher that cancels the previous task and does not wait for it.
LaunchWithoutWait(b, t) == LaunchCreate(RequestCancel(b, b.field[b.tasks[t].w]), t)

\* _acquire_lock_and_start with the lock just taken: the previous task of
\* the stream is cancelled and waited for.
LaunchEnter(b, t) ==
    LET prev == b.field[b.tasks[t].w]
        c == RequestCancel(b, prev)
    IN  IF TaskDone(b, prev) THEN LaunchCreate(c, t)
        ELSE [c EXCEPT !.tasks[t].pc = "wait"]

\* lifespan: the two streams are started and the tasks that
\* start_background_stream and start_background_screen_stream return are
\* registered under the streams' keys.
lifespan ==
    /\ UNCHANGED NotBridge
    /\ ~bridge.started
    /\ Room(bridge, 2)
    /\ LET e == Spawn(bridge, BridgeTask("launcher", "event", "lock"))
           r == [e EXCEPT !.tracked["event_stream"] = Len(e.tasks)]
           s == Spawn(r, BridgeTask("launcher", "screen", "lock"))
       IN  bridge' = [s EXCEPT !.tracked["screen_stream"] = Len(s.tasks),
                               !.started = TRUE]

\* start_background_stream, start_background_screen_stream: a launcher is
\* created.
start_background_stream(w) ==
    /\ UNCHANGED NotBridge
    /\ bridge.started
    /\ Room(bridge, 3)
    /\ bridge' = Spawn(bridge, BridgeTask("launcher", w, "lock"))

\* _acquire_lock_and_start, one run of the launcher t from where it is to
\* its next wait: for the lock, for the previous task, for the manager's
\* lock.
acquire_lock_and_start(t) ==
    /\ UNCHANGED NotBridge
    /\ bridge.tasks[t].kind = "launcher"
    /\ ~bridge.tasks[t].cancel
    /\ Room(bridge, 2)
    /\ \/ /\ bridge.tasks[t].pc = "lock"
          /\ ~Locked(bridge)
          /\ bridge' = LaunchEnter(bridge, t)
       \/ /\ bridge.tasks[t].pc = "wait"
          /\ TaskDone(bridge, bridge.field[bridge.tasks[t].w])
          /\ bridge' = LaunchCreate(bridge, t)
       \/ /\ bridge.tasks[t].pc = "reg"
          /\ ~RMBusy(bridge)
          /\ bridge' = LaunchRegister(bridge, t)

\* start_event_stream, start_screen_stream: the stream raised, and the
\* task sleeps before a restart if the emitter is active; or the screen
\* stream returned (the endpoint is not supported).
StreamRaises(t) ==
    /\ UNCHANGED NotBridge
    /\ bridge.tasks[t].kind = "stream"
    /\ bridge.tasks[t].pc = "streaming"
    /\ ~bridge.tasks[t].cancel
    /\ \E how \in {"failed", "returned"} :
          /\ how = "returned" => bridge.tasks[t].w = "screen"
          /\ bridge' = [bridge EXCEPT !.tasks[t].pc =
                            IF how = "failed" /\ bridge.active THEN "sleep" ELSE "done"]

\* start_event_stream, start_screen_stream after the delay: the stream
\* asks for its own restart if the emitter is still active.
RestartAfterDelay(t) ==
    /\ UNCHANGED NotBridge
    /\ bridge.tasks[t].kind = "stream"
    /\ bridge.tasks[t].pc = "sleep"
    /\ ~bridge.tasks[t].cancel
    /\ Room(bridge, 3)
    /\ LET d == [bridge EXCEPT !.tasks[t].pc = "done"]
       IN  bridge' = IF bridge.active
                     THEN Spawn(d, BridgeTask("launcher", bridge.tasks[t].w, "lock"))
                     ELSE d

\* CancelledError is raised in the task t where it waits. A stream that
\* is streaming returns (stream_events_to_mcp does not re-raise), or, when
\* the cancellation arrives while the failed stream waits for its helper
\* tasks, goes on as after a failure. A launcher waiting for a lock ends,
\* releasing the emitter's lock if it holds it. A launcher or a health
\* task waiting for a cancelled task catches the error and goes on
\* waiting until that task is done.
Interrupt(t) ==
    /\ UNCHANGED NotBridge
    /\ bridge.tasks[t].cancel
    /\ LET c == [bridge EXCEPT !.tasks[t].cancel = FALSE]
           k == bridge.tasks[t].kind
           pc == bridge.tasks[t].pc
       IN  IF pc = "wait" THEN bridge' = c
           ELSE IF k = "stream" /\ pc = "streaming"
           THEN \E swallowed \in BOOLEAN :
                   bridge' = [c EXCEPT !.tasks[t].pc =
                                 IF swallowed /\ bridge.active THEN "sleep" ELSE "done"]
           ELSE bridge' = [c EXCEPT !.tasks[t].pc = "done"]

\* _run_health_checks from the call of start_background_stream on.
HealthRestart(b, t) ==
    LET s == Spawn(b, BridgeTask("launcher", "event", "lock"))
    IN  [s EXCEPT !.tasks[t].pc = IF b.active THEN "sleep" ELSE "done",
                  !.tasks[t].target = NoBridgeTask]

\* _run_health_checks, one run of the health task t: after the interval
\* an event stream that is not running, or that had no event for too
\* long, has its task cancelled and waited for and is started again.
\* (_last_screen_update_time stays 0, so the screen stream is never
\* restarted from here.)
run_health_checks(t) ==
    /\ UNCHANGED NotBridge
    /\ bridge.tasks[t].kind = "health"
    /\ ~bridge.tasks[t].cancel
    /\ Room(bridge, 3)
    /\ \/ /\ bridge.tasks[t].pc = "sleep"
          /\ ~bridge.active
          /\ bridge' = [bridge EXCEPT !.tasks[t].pc = "done"]
       \/ /\ bridge.tasks[t].pc = "sleep"
          /\ bridge.active
          /\ \E stale \in BOOLEAN :
                LET cur == bridge.field["event"]
                    c == RequestCancel(bridge, cur)
                IN  /\ TaskDone(bridge, cur) \/ stale
                    /\ bridge' = IF TaskDone(bridge, cur) THEN HealthRestart(c, t)
                                 ELSE [c EXCEPT !.tasks[t].pc = "wait",
                                                !.tasks[t].target = cur]
       \/ /\ bridge.tasks[t].pc = "wait"
          /\ TaskDone(bridge, bridge.tasks[t].target)
          /\ bridge' = HealthRestart(bridge, t)

\* The tasks stop() cancels, in its order.
StopOrder == <<"health", "event", "screen">>

StopField(b, p) == IF p = "health" THEN b.health_check_task ELSE b.field[p]

\* stop() from one of its tasks on, up to its next wait: the task is
\* cancelled and waited for and its field is set to None. The fields are
\* None when stop() comes to unregister, so nothing is unregistered.
RECURSIVE StopFrom(_, _)
StopFrom(b, todo) ==
    IF todo = <<>> THEN [b EXCEPT !.stop = "done", !.stop_todo = <<>>]
    ELSE LET p == Head(todo)
             cur == StopField(b, p)
         IN  IF TaskDone(b, cur)
             THEN StopFrom(IF p = "health"
                           THEN [b EXCEPT !.health_check_task = NoBridgeTask]
                           ELSE [b EXCEPT !.field[p] = NoBridgeTask],
                           Tail(todo))
             ELSE [RequestCancel(b, cur) EXCEPT !.stop = "wait", !.stop_todo = todo]

\* stop(): under the emitter's lock _active is cleared and the three tasks
\* are cancelled.
stop ==
    /\ UNCHANGED NotBridge
    /\ \/ /\ bridge.stop = "idle"
          /\ ~Locked(bridge)
          /\ bridge' = StopFrom([bridge EXCEPT !.active = FALSE], StopOrder)
       \/ /\ bridge.stop = "wait"
          /\ TaskDone(bridge, StopField(bridge, Head(bridge.stop_todo)))
          /\ bridge' = StopFrom(bridge, bridge.stop_todo)

\* cleanup_all's loop over the task keys, up to its next wait. cancel_task
\* cancels the registered task if it is not done, waits for it and
\* removes the key; a key that is no longer registered is skipped.
RECURSIVE CancelTasks(_, _)
CancelTasks(b, keys) ==
    IF keys = <<>> THEN [b EXCEPT !.cleaning = "done", !.cleanup_keys = <<>>]
    ELSE LET k == Head(keys)
             cur == b.tracked[k]
         IN  IF TaskDone(b, cur)
             THEN CancelTasks([b EXCEPT !.tracked[k] = NoBridgeTask], Tail(keys))
             ELSE [RequestCancel(b, cur) EXCEPT !.cleaning = "wait", !.cleanup_keys = keys]

\* cleanup_all at shutdown: the registered keys are listed and each task
\* is cancelled.
cleanup_all ==
    /\ UNCHANGED NotBridge
    /\ bridge.started
    /\ \/ /\ bridge.cleaning = "idle"
          /\ bridge' = CancelTasks(bridge,
                 SelectSeq(BridgeKeys, LAMBDA k : bridge.tracked[k] # NoBridgeTask))
       \/ /\ bridge.cleaning = "wait"
          /\ TaskDone(bridge, bridge.tracked[Head(bridge.cleanup_keys)])
          /\ bridge' = CancelTasks(bridge, bridge.cleanup_keys)

BridgeInit ==
    bridge = [active |-> TRUE, tasks |-> <<>>,
              field |-> [w \in Streams |-> NoBridgeTask],
              health_check_task |-> NoBridgeTask,
              tracked |-> [k \in {"event_stream", "screen_stream", "event_health_check"}
                              |-> NoBridgeTask],
              stop |-> "idle", stop_todo |-> <<>>,
              cleaning |-> "idle", cleanup_keys |-> <<>>,
              started |-> FALSE]

\* ------------------------------------------------- health check component
\* What the upstream status endpoint can answer to _check_agent_api: a
\* status code, a timeout or another exception.
ApiAnswers == {"200", "500", "timeout", "error"}

\* What it can answer to _check_agent: 200 with a status field of stable,
\* running or anything else, another status code, or an exception.
AgentAnswers == {"stable", "running", "other", "500", "error"}

\* _check_agent_api: healthy on status code 200, unhealthy otherwise.
CheckAgentApi(answer) == IF answer = "200" THEN "healthy" ELSE "unhealthy"

\* _check_agent: healthy when the agent reports stable or running, unknown
\* for any other reported status, unhealthy otherwise.
CheckAgent(answer) ==
    IF answer \in {"stable", "running"} THEN "healthy"
    ELSE IF answer = "other" THEN "unknown"
    ELSE "unhealthy"

\* An aggregation without the degraded case.
NeverDegraded(api, agent, server) ==
    IF api = "healthy" /\ agent = "healthy" /\ server = "healthy"
    THEN "healthy"
    ELSE "unhealthy"

\* check_health, "Update overall status".
OverallStatus(api, agent, server) ==
    IF api = "healthy" /\ agent = "healthy" /\ server = "healthy"
    THEN "healthy"
    ELSE IF api = "unhealthy" \/ agent = "unhealthy"
    THEN "unhealthy"
    ELSE "degraded"

\* check_health: the server's own status is set to healthy, the two probes
\* and the resource check are run, and the overall status is derived.
CheckHealth ==
    /\ UNCHANGED NotHealth
    /\ \E api \in ApiAnswers, agent \in AgentAnswers :
         LET probed == [health EXCEPT !.mcp_server = "healthy",
                                      !.agent_api = CheckAgentApi(api),
                                      !.api_answer = api,
                                      !.agent = CheckAgent(agent),
                                      !.agent_answer = agent,
                                      !.resources = "healthy",
                                      !.last = "check"]
         IN  health' = [probed EXCEPT !.status =
                 OverallStatus(probed.agent_api, probed.agent, probed.mcp_server)]

\* A start and stop that never find the flag set.
NeverRunning(h) == FALSE

\* The test start and stop make under the lock.
IsRunning(h) == h.is_running

\* HealthCheck.start: under the lock, return if already running; otherwise
\* set the flag and create the periodic task.
HealthStart ==
    /\ UNCHANGED NotHealth
    /\ health' =
         IF IsRunning(health)
         THEN [health EXCEPT !.last = "start_again"]
         ELSE [health EXCEPT !.is_running = TRUE, !.task = TRUE,
                             !.live = @ + 1, !.last = "start"]

\* HealthCheck.stop: under the lock, return if not running; otherwise clear
\* the flag, cancel the task held, wait for it and drop it.
HealthStop ==
    /\ UNCHANGED NotHealth
    /\ health' =
         IF ~IsRunning(health)
         THEN [health EXCEPT !.last = "stop_again"]
         ELSE [health EXCEPT !.is_running = FALSE, !.task = FALSE,
                             !.live = IF health.task THEN @ - 1 ELSE @,
                             !.last = "stop"]

HealthInit ==
    health = [is_running |-> FALSE, task |-> FALSE, live |-> 0, last |-> "none",
              status |-> "unknown", agent_api |-> "unknown", agent |-> "unknown",
              mcp_server |-> "unknown", resources |-> "unknown",
              api_answer |-> "none", agent_answer |-> "none"]

\* ------------------------------------------------------------ stop_process
ProcessSlots == {sl \in SlotSet : sl[1] = "process"}

\* What the process and the platform do during one stop_process: the
\* process has exited before; terminate() raises; the process exits within
\* the timeout after terminate(); the SIGINT branch is taken; send_signal
\* raises; the process exits on SIGINT; kill() raises; closing a stream
\* raises.
Environments ==
    [exited : BOOLEAN, terminate_raises : BOOLEAN, exits_on_terminate : BOOLEAN,
     has_sigint : BOOLEAN, sigint_raises : BOOLEAN, exits_on_sigint : BOOLEAN,
     kill_raises : BOOLEAN, close_raises : BOOLEAN]

\* The block under "Try graceful termination first", up to its own
\* `except Exception`: the signals sent and whether an exception leaves
\* the block.  kill() is called where the wait after terminate() or after
\* SIGINT timed out, or where send_signal raised; an exception of kill()
\* there is raised inside an except clause and leaves the block.
Graceful(e) ==
    IF e.terminate_raises
    THEN [signals |-> <<"terminate">>, exc |-> TRUE]
    ELSE IF e.exits_on_terminate
    THEN [signals |-> <<"terminate">>, exc |-> FALSE]
    ELSE IF e.has_sigint /\ ~e.sigint_raises /\ e.exits_on_sigint
    THEN [signals |-> <<"terminate", "sigint">>, exc |-> FALSE]
    ELSE IF e.has_sigint
    THEN [signals |-> <<"terminate", "sigint", "kill">>, exc |-> e.kill_raises]
    ELSE [signals |-> <<"terminate", "kill">>, exc |-> e.kill_raises]

\* The termination part of stop_process: nothing is sent to a process
\* whose poll() is not None; an exception of the graceful block is logged
\* and kill() is tried as a last resort, its own exception logged too.
\* failed: an exception was logged or the process had to be killed.
Terminate(e) ==
    IF e.exited THEN [signals |-> <<>>, failed |-> FALSE]
    ELSE LET g == Graceful(e) IN
         IF g.exc
         THEN [signals |-> g.signals \o <<"kill">>, failed |-> TRUE]
         ELSE [signals |-> g.signals,
               failed |-> g.signals[Len(g.signals)] = "kill"]

\* An unregistration that keeps the key when the termination failed.
KeepIfFailed(reg, slot, failed) ==
    IF failed THEN reg ELSE [reg EXCEPT ![slot] = NoHandleYet]

\* stop_process, "Finally, remove the process from tracking under the
\* lock": the key is deleted if present, whatever happened before.
AfterStop(reg, slot, failed) == [reg EXCEPT ![slot] = NoHandleYet]

\* stop_process up to the release of the lock: ResourceError for a key
\* that is not registered, the registered process otherwise.
StopProcessCall(slot) ==
    /\ UNCHANGED NotStopping
    /\ stopping.pc \in {"idle", "returned", "raised"}
    /\ stopping' =
         IF registry[slot] = NoHandleYet
         THEN [pc |-> "raised", slot |-> slot, handle |-> NoHandleYet,
               signals |-> <<>>, failed |-> FALSE, raised |-> "ResourceError"]
         ELSE [pc |-> "terminating", slot |-> slot, handle |-> registry[slot],
               signals |-> <<>>, failed |-> FALSE, raised |-> "none"]

\* stop_process outside the lock: the termination and the closing of the
\* streams, with every Exception caught and logged.
StopProcessTerminate ==
    /\ UNCHANGED NotStopping
    /\ stopping.pc = "terminating"
    /\ \E e \in Environments :
         LET done == Terminate(e) IN
         stopping' = [stopping EXCEPT !.pc = "unregistering",
                                      !.signals = done.signals,
                                      !.failed = done.failed \/ e.close_raises]

\* stop_process under the lock again: the key is removed and the call
\* returns.
StopProcessUnregister ==
    /\ UNCHANGED <<supVars, streamVars, connVars, monitor, request, emitter, health,
                   operations, bridge>>
    /\ stopping.pc = "unregistering"
    /\ registry' = AfterStop(registry, stopping.slot, stopping.failed)
    /\ stopping' = [stopping EXCEPT !.pc = "returned"]
    /\ UNCHANGED <<handles, reg_result, cleanup>>

StoppingInit ==
    stopping = [pc |-> "idle", slot |-> Slots[1], handle |-> NoHandleYet,
                signals |-> <<>>, failed |-> FALSE, raised |-> "none"]

\* -------------------------------------------------------- operation records
\* asyncio.sleep(60) in _cleanup_operation, in units of twenty seconds.
cleanup_delay == 3

\* The longest a start_agent body lasts, in units of twenty seconds: the
\* 30 s wait loop, the last probe and sleep it began, and the 5 s wait
\* after terminate().
max_start_time == 2

OpCalls == 1..NumOpCalls

NoCall == 0

\* f"{operation_type}_{agent}_{int(time.time())}": the second is given as
\* the clock unit and the second within it.
OperationId(kind, a, tick, second) == <<kind, a, tick, second>>

\* self._active_operations[id] = ..., or ...[id]["status"] = status on a
\* record that is present.
PutRecord(table, id, status) ==
    [i \in DOMAIN table \cup {id} |-> IF i = id THEN status ELSE table[i]]

\* del self._active_operations[id]
DelRecord(table, id) == [i \in DOMAIN table \ {id} |-> table[i]]

\* The finally block of _track_operation: the category lock is released,
\* which wakes the first waiter, and a _cleanup_operation task is created.
Released(o, id) ==
    [o EXCEPT !.holder = IF o.queue = <<>> THEN NoCall ELSE Head(o.queue),
              !.queue = IF o.queue = <<>> THEN <<>> ELSE Tail(o.queue),
              !.timers = @ \cup {<<id, o.clock + cleanup_delay>>}]

\* _track_operation up to its first await that suspends, for a start_agent
\* of agent a (the callers are numbered in the order they call): the record is written, and with the category lock free the
\* locks are taken, the status set to running and the body entered.  (Among
\* start_agent calls alone the agent lock is free whenever the category
\* lock is held by the caller.)
TrackCall(c, a, second) ==
    /\ UNCHANGED NotOperations
    /\ operations.calls[c].pc = "idle"
    /\ \A b \in 1..(c - 1) : operations.calls[b].pc # "idle"
    /\ LET id == OperationId("start", a, operations.clock, second)
           o == [operations EXCEPT !.table = PutRecord(@, id, "starting")]
       IN  operations' =
             IF o.holder = NoCall
             THEN [o EXCEPT !.holder = c,
                            !.table = PutRecord(@, id, "running"),
                            !.calls[c] = [pc |-> "body", id |-> id,
                                          began |-> o.clock, outcome |-> "none"]]
             ELSE [o EXCEPT !.queue = Append(@, c),
                            !.calls[c] = [pc |-> "waiting", id |-> id,
                                          began |-> 0, outcome |-> "none"]]

\* _track_operation after operation_lock.acquire() returned: the status
\* write of line 181 raises KeyError when the record is gone, the except
\* clause's own write raises it again, and the finally block runs.
TrackResume(c) ==
    /\ UNCHANGED NotOperations
    /\ operations.calls[c].pc = "waiting"
    /\ operations.holder = c
    /\ LET id == operations.calls[c].id IN
       operations' =
         IF id \in DOMAIN operations.table
         THEN [operations EXCEPT !.table = PutRecord(@, id, "running"),
                                 !.calls[c].pc = "body",
                                 !.calls[c].began = operations.clock]
         ELSE [Released(operations, id) EXCEPT !.calls[c].pc = "done",
                                               !.calls[c].outcome = "KeyError"]

\* The body of start_agent returns or raises an Exception, and
\* _track_operation writes completed or failed to the record: with the
\* record gone the write raises KeyError (for a body that returned, the
\* except clause's write raises it again); then the finally block runs.
BodyEnds(c, how) ==
    /\ UNCHANGED NotOperations
    /\ operations.calls[c].pc = "body"
    /\ LET id == operations.calls[c].id
           o == Released(operations, id)
       IN  operations' =
             IF id \in DOMAIN operations.table
             THEN [o EXCEPT !.table = PutRecord(@, id, IF how = "returned"
                                                       THEN "completed" ELSE "failed"),
                            !.calls[c].pc = "done",
                            !.calls[c].outcome = how]
             ELSE [o EXCEPT !.calls[c].pc = "done",
                            !.calls[c].outcome = "KeyError"]

\* _cleanup_operation after its sleep: the record is deleted if present.
CleanupOperation ==
    /\ UNCHANGED NotOperations
    /\ \E tm \in operations.timers :
         /\ tm[2] <= operations.clock
         /\ operations' = [operations EXCEPT
                !.timers = @ \ {tm},
                !.table = IF tm[1] \in DOMAIN @ THEN DelRecord(@, tm[1]) ELSE @]

\* Twenty seconds pass: no cleanup task is overdue, no caller that was given
\* the lock is still to resume, and no body has lasted its longest.
OpTick ==
    /\ UNCHANGED NotOperations
    /\ operations.clock < MaxOpClock
    /\ \A tm \in operations.timers : tm[2] > operations.clock
    /\ \A c \in OpCalls :
         /\ ~(operations.calls[c].pc = "waiting" /\ operations.holder = c)
         /\ operations.calls[c].pc = "body" =>
                operations.clock - operations.calls[c].began < max_start_time
    /\ operations' = [operations EXCEPT !.clock = @ + 1]

OperationsInit ==
    operations = [clock |-> 0, table |-> <<>>, timers |-> {}, holder |-> NoCall,
                  queue |-> <<>>,
                  calls |-> [c \in OpCalls |->
                               [pc |-> "idle", id |-> <<>>, began |-> 0,
                                outcome |-> "none"]]]

\* ------------------------------------------------------- specifications
\* AgentManager.__init__ and _initialize_agents.
SupInit ==
    /\ install_status = [a \in Agents |-> "unknown"]
    /\ running_status = [a \in Agents |-> "unknown"]
    /\ process = [a \in Agents |-> NoProc]
    /\ proc_agent = [p \in Procs |-> NoAgent]
    /\ proc_state = [p \in Procs |-> "unspawned"]
    /\ op_lock = [k \in OpKinds |-> NoTask]
    /\ agent_lock = [a \in Agents |-> NoTask]
    /\ stack = [t \in Tasks |-> <<>>]
    /\ result = [t \in Tasks |-> NoResult]
    /\ last_probe = [a \in Agents |-> "none"]

\* The state a completed startup detection leaves (context.py runs
\* detect_agents before anything is started): every agent has an install
\* verdict, none is running, no subprocess was spawned yet.
DetectedInit ==
    /\ install_status \in [Agents -> {"installed", "partial"}]
    /\ running_status = [a \in Agents |-> "stopped"]
    /\ process = [a \in Agents |-> NoProc]
    /\ proc_agent = [p \in Procs |-> NoAgent]
    /\ proc_state = [p \in Procs |-> "unspawned"]
    /\ op_lock = [k \in OpKinds |-> NoTask]
    /\ agent_lock = [a \in Agents |-> NoTask]
    /\ stack = [t \in Tasks |-> <<>>]
    /\ result = [t \in Tasks |-> NoResult]
    /\ last_probe = [a \in Agents |-> "fail"]

\* The server after construction.
Init ==
    /\ SupInit /\ StreamInit /\ ConnInit
    /\ RmInit /\ MonitorInit /\ RequestInit /\ EmitterInit /\ HealthInit /\ StoppingInit /\ OperationsInit /\ BridgeInit

\* The server after its startup detection.
InitDetected ==
    /\ DetectedInit /\ StreamInit /\ ConnInit
    /\ RmInit /\ MonitorInit /\ RequestInit /\ EmitterInit /\ HealthInit /\ StoppingInit /\ OperationsInit /\ BridgeInit

LockSteps == \E t \in Tasks : AcquireOp(t)

EnvSteps == \E p \in Procs : ProcExit(p)

StartSteps ==
    \/ \E t \in Tasks : StartEnter(t)
    \/ \E t \in Tasks : StartValidated(t)
    \/ \E t \in Tasks : StartWake(t)

StopSteps ==
    \/ \E t \in Tasks : StopEnter(t)
    \/ \E t \in Tasks : StopVerified(t)

NestSteps ==
    \/ \E t \in Tasks : RestartEnter(t)
    \/ \E t \in Tasks : SwitchEnter(t)
    \/ \E t \in Tasks : SettleWake(t)

DetectSteps ==
    \/ \E t \in Tasks : DetectEnter(t)
    \/ \E t \in Tasks : DetectCmdDone(t)
    \/ \E t \in Tasks : DetectValidated(t)

StatusSteps ==
    \/ \E t \in Tasks : DetectTimeout(t)
    \/ \E t \in Tasks : GetStatusEnter(t)
    \/ \E t \in Tasks : GetStatusAfterDetect(t)
    \/ \E t \in Tasks : GetStatusValidated(t)

InstallSteps ==
    \/ \E t \in Tasks : InstallEnter(t)
    \/ \E t \in Tasks : InstallCmdDone(t)

DetectAllSteps ==
    \/ \E t \in Tasks : DetectAllProbed(t)
    \/ \E t \in Tasks, a \in Agents : DetectSubAcquire(t, a)
    \/ \E t \in Tasks, a \in Agents : DetectSubEnter(t, a)
    \/ \E t \in Tasks, a \in Agents : DetectSubCmdDone(t, a)
    \/ \E t \in Tasks, a \in Agents : DetectSubValidated(t, a)
    \/ \E t \in Tasks, a \in Agents : DetectSubTimeout(t, a)
    \/ \E t \in Tasks : DetectAllDone(t)
    \/ \E t \in Tasks : DetectAllTimeout(t)

CallOn(ts, ops, as) == \E t \in ts, op \in ops, a \in as : Call(t, op, a)

CallBy(ts, ops) == CallOn(ts, ops, Agents)

CallOf(ops) == CallBy(Tasks, ops)

CallDetectAll == \E t \in Tasks : Call(t, "detect", NoAgent)

\* Every operation, from construction.
SupNext ==
    \/ CallOf(AgentOps)
    \/ CallDetectAll
    \/ LockSteps
    \/ StartSteps
    \/ StopSteps
    \/ NestSteps
    \/ DetectSteps
    \/ StatusSteps
    \/ InstallSteps
    \/ DetectAllSteps
    \/ EnvSteps

Spec == Init /\ [][SupNext]_vars

\* install_agent, get_agent_status and start_agent of one agent by
\* concurrent callers after the startup detection.
ProbeNext ==
    \/ CallOn(Tasks, {"get_status", "install", "start"}, {AgentOrder[1]})
    \/ LockSteps
    \/ StartSteps
    \/ DetectSteps
    \/ StatusSteps
    \/ InstallSteps
    \/ EnvSteps

SpecProbe == InitDetected /\ [][ProbeNext]_vars

\* Concurrent start calls after the startup detection.
StartNext ==
    \/ CallOf({"start"})
    \/ LockSteps
    \/ StartSteps
    \/ EnvSteps

SpecStart == InitDetected /\ [][StartNext]_vars

\* start, stop, restart and switch by concurrent callers after the startup
\* detection.
LifecycleSteps ==
    \/ LockSteps
    \/ StartSteps
    \/ StopSteps
    \/ NestSteps

LifecycleNext ==
    \/ CallOf({"start", "stop", "restart", "switch"})
    \/ LifecycleSteps
    \/ EnvSteps

SpecLifecycle == InitDetected /\ [][LifecycleNext]_vars

\* start, stop, restart and switch by a single caller, one call at a time.
\* The event loop runs every task that is ready, and every external call
\* (probe, sleep, process wait) returns: the steps of the caller are
\* weakly fair.  Calls and process crashes are not.
SoloNext ==
    \/ CallBy({1}, {"start", "stop", "restart", "switch"})
    \/ LifecycleSteps
    \/ EnvSteps

SpecSolo == InitDetected /\ [][SoloNext]_vars /\ WF_vars(LifecycleSteps)

\* A status change and message updates with the ids 1, 2, 3, 10 or no id
\* at all, in any order of arrival.
OrderPool ==
    {StatusChange("running")}
    \cup {MessageUpdate(id, "text", "") :
             id \in {<<"1">>, <<"2">>, <<"3">>, <<"1", "0">>, <<>>}}

StreamSteps ==
    \/ Tick
    \/ Drain
    \/ Dispatch
    \/ NextBatch

OrderNext ==
    \/ \E e \in OrderPool : Arrive(e)
    \/ StreamSteps

SpecOrder == Init /\ [][OrderNext]_vars

\* Message updates of one message id whose texts differ within the first
\* 1000 characters, differ only after them, or do not differ, and one
\* update of another message.
DedupePool ==
    {MessageUpdate(<<"1">>, "draft", ""), MessageUpdate(<<"1">>, "draft", "more"),
     MessageUpdate(<<"1">>, "final", ""), MessageUpdate(<<"2">>, "draft", "")}

DedupeNext ==
    \/ \E e \in DedupePool : Arrive(e)
    \/ StreamSteps

SpecDedupe == Init /\ [][DedupeNext]_vars

\* start_agent, stop_agent and get_agent_status of one agent by concurrent
\* callers after the startup detection.
StopNext ==
    \/ CallOn(Tasks, {"start", "stop", "get_status"}, {AgentOrder[1]})
    \/ LockSteps
    \/ StartSteps
    \/ StopSteps
    \/ DetectSteps
    \/ StatusSteps
    \/ EnvSteps

SpecStop == InitDetected /\ [][StopNext]_vars

\* Message updates read from the stream, with the ids 1, 2 and 10.
StreamPool == {MessageUpdate(id, "text", "") : id \in {<<"1">>, <<"2">>, <<"1", "0">>}}

ConnSteps ==
    \/ StreamCall
    \/ Connect
    \/ StreamDrop
    \/ StreamEnd
    \/ BackoffDone
    \/ StreamRestart

\* The stream client with its buffer and dispatcher.
ReconnectNext ==
    \/ \E e \in StreamPool : Receive(e)
    \/ Drain
    \/ Dispatch
    \/ NextBatch
    \/ ConnSteps

SpecReconnect == Init /\ [][ReconnectNext]_vars

\* Callers registering and unregistering resources while cleanup_all runs.
SpecResources ==
    Init /\ [][ \/ \E slot \in SlotSet : Register(slot)
                \/ \E slot \in SlotSet : Unregister(slot)
                \/ CleanupAllEnter
                \/ CleanupOne ]_vars

\* One monitoring loop against every outcome of its status checks and
\* restart attempts.
SpecMonitor ==
    Init /\ [][ \/ \E auto_reconnect \in BOOLEAN : MonitorCall(auto_reconnect)
                \/ MonitorCheck
                \/ MonitorRestart
                \/ MonitorWait ]_vars

\* detect_agents by concurrent callers, from construction.
SpecDetectAll == Init /\ [][CallDetectAll \/ LockSteps \/ DetectAllSteps]_vars

\* One make_request call against every sequence of outcomes.
SpecRequest ==
    Init /\ [][ \/ \E n \in 0..MaxRetryAttempts : RequestCall(n)
                \/ RequestAttempt
                \/ RequestRetry ]_vars

\* The event emitter from its first start_background_stream on.  The
\* event loop runs every task that is ready and every sleep returns: the
\* health check round and the start of the stream are weakly fair.  The
\* arrival of events, the end of the stream task and stop are not.
SpecHealth ==
    /\ Init
    /\ [][ \/ StartBackgroundStream
           \/ AcquireLockAndStart
           \/ RecordEventProcessed
           \/ StreamTaskEnds
           \/ HealthCheck
           \/ EmitterStop ]_vars
    /\ WF_vars(HealthCheck)
    /\ WF_vars(AcquireLockAndStart)

\* The event emitter with both of its streams, under the same fairness.
SpecScreen ==
    /\ Init
    /\ [][ \/ StartBackgroundStream
           \/ AcquireLockAndStart
           \/ RecordEventProcessed
           \/ StreamTaskEnds
           \/ StartBackgroundScreenStream
           \/ AcquireLockAndStartScreen
           \/ ProcessScreenUpdate
           \/ ScreenTaskEnds
           \/ HealthCheck
           \/ EmitterStop ]_vars
    /\ WF_vars(HealthCheck)
    /\ WF_vars(AcquireLockAndStart)
    /\ WF_vars(AcquireLockAndStartScreen)

\* The health check component: start, stop and check_health in any order.
SpecHealthMonitor ==
    Init /\ [][HealthStart \/ HealthStop \/ CheckHealth]_vars

\* stop_process calls while other callers register and unregister
\* processes.
SpecStopProcess ==
    Init /\ [][ \/ \E slot \in ProcessSlots : Register(slot)
                \/ \E slot \in ProcessSlots : Unregister(slot)
                \/ \E slot \in ProcessSlots : StopProcessCall(slot)
                \/ StopProcessTerminate
                \/ StopProcessUnregister ]_vars

\* start_agent calls under _track_operation while the clock runs.
SpecOperations ==
    Init /\ [][ \/ \E c \in OpCalls, a \in Agents, second \in 1..2 :
                     TrackCall(c, a, second)
                \/ \E c \in OpCalls : TrackResume(c)
                \/ \E c \in OpCalls, how \in {"returned", "raised"} : BodyEnds(c, how)
                \/ CleanupOperation
                \/ OpTick ]_vars

\* Message updates streamed with the message ids 0, 2 and 10, one polled
\* with the id 1, and a status change, dispatched in batches.
WatermarkPool ==
    {StreamedUpdate(id, "text") : id \in {<<"0">>, <<"2">>, <<"1", "0">>}}
    \cup {MessageUpdate(<<"1">>, "text", ""), StatusChange("stable")}

SpecWatermark ==
    Init /\ [][ \/ \E e \in WatermarkPool : Arrive(e)
                \/ Tick
                \/ Drain
                \/ Dispatch
                \/ NextBatch ]_vars

\* Raw screen updates, a screen event, a message update and a status
\* change read from the stream in any order.
ScreenPool ==
    {ScreenEvent("screen_update", "prompt"), ScreenEvent("screen_update", "output"),
     ScreenEvent("screen", "prompt"), MessageUpdate(<<"1">>, "text", ""),
     StatusChange("stable")}

SpecFilter ==
    Init /\ [][ \/ \E e \in ScreenPool : Arrive(e)
                \/ Tick
                \/ Drain
                \/ Dispatch
                \/ NextBatch ]_vars

\* Two status changes, a screen event, two events of other types, a
\* polled message update and a streamed one without an event id.
PriorityPool ==
    {StatusChange("running"), StatusChange("stable"), ScreenEvent("screen", "prompt"),
     ScreenEvent("agent_error", "first"), ScreenEvent("agent_error", "second"),
     MessageUpdate(<<"1">>, "text", ""), StreamedUpdate(<<"2">>, "text")}

\* The events of one run of the priority scenario.
MaxPriorityArrivals == 4

SpecPriority ==
    Init /\ [][ \/ \E e \in PriorityPool : arrived < MaxPriorityArrivals /\ Arrive(e)
                \/ Tick
                \/ Drain
                \/ Dispatch
                \/ NextBatch ]_vars

\* One caller of get_agent_status and one caller of start_agent on one
\* agent, each of which may be cancelled at any await.
SpecCancel ==
    InitDetected /\ [][ \/ CallOn({1}, {"get_status"}, {AgentOrder[1]})
                        \/ CallOn(Tasks \ {1}, {"start"}, {AgentOrder[1]})
                        \/ LockSteps
                        \/ StartSteps
                        \/ DetectSteps
                        \/ StatusSteps
                        \/ EnvSteps
                        \/ \E t \in Tasks : Cancel(t) ]_vars

\* The emitter's tasks: the lifespan's start of both streams, further
\* starts, failures and restarts, the health loop, stop() and cleanup_all.
SpecBridge ==
    /\ Init
    /\ [][\/ lifespan
          \/ \E w \in Streams : start_background_stream(w)
          \/ \E t \in DOMAIN bridge.tasks : acquire_lock_and_start(t)
          \/ \E t \in DOMAIN bridge.tasks : StreamRaises(t)
          \/ \E t \in DOMAIN bridge.tasks : RestartAfterDelay(t)
          \/ \E t \in DOMAIN bridge.tasks : Interrupt(t)
          \/ \E t \in DOMAIN bridge.tasks : run_health_checks(t)
          \/ stop
          \/ cleanup_all]_vars

\* --------------------------------------------------------- properties
StartResult(t) == result[t].kind = "proc" /\ result[t].op = "start"

Running(p) == proc_state[p] = "alive"

\* C1: start calls of one agent never leave two subprocesses of it running,
\* and two start calls that both returned a running handle of the agent
\* returned the same handle.
OneSubprocessPerAgent ==
    /\ \A p, q \in Procs :
          Running(p) /\ Running(q) /\ proc_agent[p] = proc_agent[q] => p = q
    /\ \A t, u \in Tasks :
          /\ StartResult(t) /\ StartResult(u)
          /\ result[t].agent = result[u].agent
          /\ Running(result[t].proc) /\ Running(result[u].proc)
          => result[t].proc = result[u].proc

\* Two callers hold the same running handle of one agent: one start spawned
\* it, the other returned it without spawning.
SecondStartSharesHandle ==
    \E t, u \in Tasks :
        /\ StartResult(t) /\ StartResult(u)
        /\ result[t].agent = result[u].agent
        /\ result[t].proc = result[u].proc
        /\ Running(result[t].proc)
        /\ result[t].spawned = result[t].proc
        /\ result[u].spawned = NoProc

\* The bottom frame of task t: the operation its caller invoked.
Invoked(t) == stack[t][Len(stack[t])]

InOp(t, op) == stack[t] # <<>> /\ Invoked(t).op = op

\* C2: a restart that was invoked and has not returned can always take a
\* step: it never waits for a lock that nobody will release.
RestartNeverStuck == \A t \in Tasks : InOp(t, "restart") => ENABLED LifecycleSteps

\* C3: a switch to an installed agent that is not the running one can always
\* take a step until it returns a handle or an error.
SwitchNeverStuck ==
    \A t \in Tasks :
        InOp(t, "switch") /\ install_status[Invoked(t).agent] = "installed"
        => ENABLED LifecycleSteps

HoldsAgentLock(t) == \E a \in Agents : agent_lock[a] = t

\* C4: no task waits for a category lock while it holds a per-agent lock.
CategoryBeforeAgent ==
    \A t \in Tasks :
        stack[t] # <<>> /\ Top(t).pc = "acq_op" => ~HoldsAgentLock(t)

\* Task t is inside an operation body that reads or writes the descriptor
\* of agent a: start_agent's wait loop, get_agent_status under its lock,
\* or a _detect_agent (of get_agent_status or of _install_<agent>) past its
\* first write.
InBody(t, a) ==
    \E i \in DOMAIN stack[t] :
        LET f == stack[t][i] IN
        /\ f.agent = a
        /\ \/ f.op = "start" /\ f.pc \in {"validating", "sleeping"}
           \/ f.op = "get_status" /\ f.pc \in {"await_detect", "after_detect", "validating"}
           \/ f.op = "_detect" /\ f.pc \in {"det_cmd", "det_validate"}

\* C5: within one agent at most one operation at a time is inside a body
\* that reads or writes the agent's descriptor.
OneBodyPerAgent ==
    \A a \in Agents : \A t, u \in Tasks : InBody(t, a) /\ InBody(u, a) => t = u

TimedOut(t) == result[t].kind = "error" /\ result[t].err = "TimeoutError"

\* C6: a start that ended in TimeoutError spawned a subprocess, that
\* subprocess was terminated or killed, and no descriptor holds it.
TimedOutStartLeavesNothing ==
    \A t \in Tasks :
        TimedOut(t) =>
            /\ result[t].op = "start"
            /\ result[t].spawned # NoProc
            /\ proc_state[result[t].spawned] \in {"exited", "killed"}
            /\ \A a \in Agents : process[a] # result[t].spawned

\* A start timed out and its subprocess had to be killed.
StartTimedOutAndKilled ==
    \E t \in Tasks : TimedOut(t) /\ proc_state[result[t].spawned] = "killed"

\* C7: a descriptor whose running status is RUNNING holds a process handle.
RunningHasHandle == \A a \in Agents : running_status[a] = "running" => process[a] # NoProc

\* C8: the buffer never holds more than max_buffer_size events; an event
\* that arrives at capacity drops exactly the oldest buffered event and is
\* appended; below capacity it is appended and nothing is dropped.
BackpressureDropsOldest ==
    [][ /\ Len(event_buffer') <= max_buffer_size
        /\ arrived' # arrived =>
              LET n == Len(event_buffer')
                  kept == SubSeq(event_buffer', 1, n - 1)
              IN  /\ n >= 1
                  /\ event_buffer'[n].ts = clock
                  /\ IF Len(event_buffer) = max_buffer_size
                     THEN kept = Tail(event_buffer) /\ overflows' = overflows + 1
                     ELSE kept = event_buffer /\ overflows' = overflows ]_vars

\* An event arrived at a full buffer.
OldestWasDropped == overflows > 0 /\ Len(event_buffer) = max_buffer_size

\* The batch in hand in its order of dispatch: what was sent, then what is
\* still to be sent.
DispatchOrder == [i \in DOMAIN sent |-> sent[i].event] \o events_to_process

Labels(events) == [i \in DOMAIN events |-> <<events[i].type, events[i].id>>]

ExampleArrival ==
    << <<"message_update", <<"3">>>>, <<"status_change", <<>>>>,
       <<"message_update", <<"1">>>>, <<"message_update", <<"2">>>> >>

ExampleDispatch ==
    << <<"status_change", <<>>>>, <<"message_update", <<"1">>>>,
       <<"message_update", <<"2">>>>, <<"message_update", <<"3">>>> >>

\* C9: in a drained batch every status_change is dispatched before every
\* message_update, message_update events with numeric ids are dispatched in
\* ascending numeric order, and the batch that arrived as message 3,
\* status, message 1, message 2 is dispatched as status, message 1,
\* message 2, message 3.
StatusFirstThenAscendingIds ==
    /\ \A i, j \in DOMAIN DispatchOrder :
          i < j =>
            /\ ~(DispatchOrder[i].type = "message_update"
                 /\ DispatchOrder[j].type = "status_change")
            /\ NumericMessage(DispatchOrder[i]) /\ NumericMessage(DispatchOrder[j])
               => ToInt(DispatchOrder[i].id) <= ToInt(DispatchOrder[j].id)
    /\ Labels(batch_in) = ExampleArrival => Labels(DispatchOrder) = ExampleDispatch

\* The example batch was drained and all of it was sent.
ExampleBatchSent ==
    /\ Labels(batch_in) = ExampleArrival
    /\ events_to_process = <<>>
    /\ Labels([i \in DOMAIN sent |-> sent[i].event]) = ExampleDispatch

\* The message_update events of a list with one id and one content.
Copies(events, id, head, tail) ==
    {i \in DOMAIN events :
        /\ events[i].type = "message_update"
        /\ events[i].id = id
        /\ events[i].head = head
        /\ events[i].tail = tail}

\* C10: of the message_update events of a drained batch, each id with each
\* content is dispatched exactly once: identical updates yield one event,
\* updates of one id with different contents are all dispatched.
OneDispatchPerIdAndContent ==
    \A i \in DOMAIN batch_in :
        LET e == batch_in[i] IN
        e.type = "message_update" =>
            Cardinality(Copies(DispatchOrder, e.id, e.head, e.tail)) = 1

\* C11: a reconnection request sent after an event with a numeric id was
\* dispatched carries the highest numeric id dispatched so far.
ReconnectCarriesWatermark ==
    last_request.sent /\ last_request.again /\ last_request.seen # <<>>
    => last_request.id = last_request.seen

\* Task t is about to run the body of a stop_agent that its caller invoked
\* on agent a, and a is not running.
StopsNotRunning(t, a) ==
    /\ Len(stack[t]) = 1
    /\ Top(t).op = "stop" /\ Top(t).pc = "acq_agent" /\ Top(t).agent = a
    /\ (running_status[a] # "running" \/ process[a] = NoProc)

Descriptor(a) == <<install_status[a], running_status[a], process[a]>>

\* C12: a stop_agent of an agent that is not running returns False, sends
\* no signal to and waits for no process, and leaves the descriptor of
\* every other agent as it was.
StopNotRunningTouchesNothing ==
    [][ \A t \in Tasks, a \in Agents :
          StopsNotRunning(t, a) /\ stack'[t] # stack[t] =>
              /\ result'[t] = RetBool(Top(t), FALSE)
              /\ proc_state' = proc_state
              /\ \A b \in Agents \ {a} : Descriptor(b)' = Descriptor(b) ]_vars

\* A stop_agent returned False for an agent whose descriptor says it is not
\* running although it holds a handle.
StoppedNotRunningWithHandle ==
    \E t \in Tasks :
        /\ result[t].op = "stop" /\ result[t].kind = "bool" /\ ~result[t].flag
        /\ running_status[result[t].agent] # "running"
        /\ process[result[t].agent] # NoProc

\* C13: a stop_agent that returns, returns True: when it stopped a running
\* agent and when the agent was already not running.
StopReturnsTrue ==
    \A t \in Tasks :
        result[t].op = "stop" /\ result[t].kind = "bool" => result[t].flag

\* C14: when cleanup_all has returned, every resource that was registered
\* when it began has left its registry, and has been torn down by
\* cleanup_all unless its owner unregistered it first, whichever teardowns
\* raised on the way.
CleanupAllReachesEveryResource ==
    cleanup.pc = "returned" =>
        \A r \in cleanup.snapshot :
            /\ registry[r[1]] # r[2]
            /\ \/ r \in cleanup.released
               \/ \E i \in DOMAIN cleanup.torn :
                      cleanup.torn[i].slot = r[1] /\ cleanup.torn[i].handle = r[2]

\* cleanup_all returned after a teardown raised and a later one succeeded.
CleanedUpPastAFailure ==
    /\ cleanup.pc = "returned"
    /\ \E i, j \in DOMAIN cleanup.torn :
           i < j /\ cleanup.torn[i].raised /\ ~cleanup.torn[j].raised

\* C15: a register_* call for a key that is present in that registry fails
\* with ResourceError and leaves the registries as they were.
RegisterNeverOverwrites ==
    [][ \A slot \in SlotSet :
          /\ registry[slot] # NoHandleYet
          /\ reg_result' # reg_result
          /\ reg_result'.slot = slot
          => reg_result'.error /\ registry' = registry ]_vars

\* A register_* call failed and the key still holds the earlier handle.
RegisterRefused ==
    /\ reg_result.error
    /\ registry[reg_result.slot] # NoHandleYet
    /\ registry[reg_result.slot] # reg_result.handle

\* C16: the monitoring loop does not come back to its head for another
\* round once max_failures restart attempts in a row have failed.
MonitorGivesUpOnFailingRestarts ==
    monitor.pc = "check" => monitor.failed_restarts < max_failures

Finished(f) == \A b \in Agents : f.sub[b] \in {"none", "done", "timed_out"}

\* C17: when the detection of one agent ends by its own timeout inside
\* detect_agents, that agent's install and running status become unknown,
\* the detection tasks and the statuses of the other agents are left as
\* they are, and once every detection task is over detect_agents returns
\* normally.
AgentTimeoutIsContained ==
    [][ \A t \in Tasks, a \in Agents :
          InGather(t) =>
            /\ InGather(t)' /\ Top(t).sub[a] # "timed_out"
                 /\ Top(t)'.sub[a] = "timed_out"
               => /\ install_status'[a] = "unknown"
                  /\ running_status'[a] = "unknown"
                  /\ \A b \in Agents \ {a} :
                        /\ Top(t)'.sub[b] = Top(t).sub[b]
                        /\ install_status'[b] = install_status[b]
                        /\ running_status'[b] = running_status[b]
            /\ Top(t).sub[a] = "timed_out" /\ Finished(Top(t))
                 /\ stack'[t] # stack[t]
               => result'[t] = RetNone(Top(t)) ]_vars

\* One detection task has timed out and another has finished with an
\* install verdict of its own.
OneTimedOutOtherDetected ==
    \E t \in Tasks, a, b \in Agents :
        /\ InGather(t) /\ Finished(Top(t))
        /\ Top(t).sub[a] = "timed_out" /\ install_status[a] = "unknown"
        /\ Top(t).sub[b] = "done" /\ install_status[b] \in {"installed", "partial"}

\* C18: while stream_events is retrying, at most max_reconnect_attempts
\* errors in a row have been counted; a successful connect resets the
\* counter and the backoff; and the error after the last allowed attempt
\* ends the stream with a terminal error.
ReconnectAttemptsBounded ==
    /\ conn \in {"connecting", "backoff"} => attempt <= max_reconnect_attempts
    /\ conn = "open" => attempt = 0 /\ delay = 0
    /\ attempt > max_reconnect_attempts => conn \in {"failed", "idle"}
    /\ attempt <= max_reconnect_attempts + 1

\* The stream gave up on a reconnection attempt that failed.
GaveUpAfterRetries ==
    /\ conn = "failed"
    /\ attempt = max_reconnect_attempts + 1
    /\ last_request.again

Requests == Len(request.outcomes)

LastOutcome == request.outcomes[Requests]

\* Every request but the latest came back with something retryable, and a
\* call that ended did so as its latest outcome demands: a parsed 2xx body
\* is returned, a timeout raises TimeoutError, anything else raises
\* AgentAPIError, which carries the status code of an error response; and
\* a retryable outcome is raised only once the attempts are used up.
SurfacedAsReceived ==
    /\ \A i \in 1..(Requests - 1) : Retryable(request.outcomes[i])
    /\ request.pc = "returned" =>
          LastOutcome = [kind |-> "response", code |-> 200, json |-> TRUE]
    /\ request.pc = "raised" =>
          /\ request.error =
                (IF LastOutcome.kind = "timeout" THEN "TimeoutError" ELSE "AgentAPIError")
          /\ LastOutcome.kind = "response" /\ LastOutcome.code # 200
                => request.status_code = LastOutcome.code
          /\ Retryable(LastOutcome) => Requests >= request.retry_attempts

NewStreamTask == emitter.stream_task = "running" /\ emitter.fresh

EndedScreenStreamIsRestarted ==
    (/\ emitter.active /\ emitter.health_check_task
     /\ emitter.screen_delivered /\ emitter.screen_task = "done")
    ~> (emitter.screen_task = "running" \/ ~emitter.active)

\* C22: once a health check has run, the overall status is healthy exactly
\* when the API, the agent and the server are all healthy, unhealthy when
\* the API or the agent is unhealthy, and degraded in every other case.
AggregateFollowsComponents ==
    LET all_healthy == /\ health.agent_api = "healthy"
                       /\ health.agent = "healthy"
                       /\ health.mcp_server = "healthy"
        one_unhealthy == \/ health.agent_api = "unhealthy"
                         \/ health.agent = "unhealthy"
    IN  health.status # "unknown" =>
          /\ (health.status = "healthy") <=> all_healthy
          /\ one_unhealthy => health.status = "unhealthy"
          /\ (~all_healthy /\ ~one_unhealthy) => health.status = "degraded"

\* C22 witness: a check found the API healthy and the agent in a status it
\* does not know, and reported degraded.
DegradedReported ==
    /\ health.status = "degraded"
    /\ health.agent_api = "healthy"
    /\ health.agent = "unknown"

\* C28: at most one periodic health task exists and it exists exactly when
\* the running flag is set and the task is held; a start while running and
\* a stop while not running change nothing; after a stop the flag is false
\* and no task is held.
HealthStartStopIdempotent ==
    /\ [](/\ health.live <= 1
          /\ health.is_running <=> health.task
          /\ health.task <=> (health.live = 1)
          /\ health.last \in {"stop", "stop_again"} =>
                 ~health.is_running /\ ~health.task)
    /\ [][/\ (health.is_running /\ health'.last = "start_again")
               => health' = [health EXCEPT !.last = "start_again"]
          /\ (~health.is_running /\ health'.last = "stop_again")
               => health' = [health EXCEPT !.last = "stop_again"]]_vars

\* C28 witness: start was called again while the one task was running.
StartedTwiceOneTask ==
    /\ health.last = "start_again"
    /\ health.is_running
    /\ health.live = 1

\* C23: a start_agent that finds its agent's install status other than
\* installed ends in that step with AgentStartError: no subprocess is
\* spawned, no liveness probe is made, the descriptor's handle and running
\* status stay as they are, and its category lock and agent lock are free.
StartRejectsNotInstalled ==
    [][ \A t \in Tasks :
          /\ stack[t] # <<>>
          /\ Top(t).op = "start" /\ Top(t).pc = "acq_agent"
          /\ install_status[Top(t).agent] # "installed"
          /\ stack'[t] # stack[t]
          => /\ stack'[t] = <<>>
             /\ result'[t].kind = "error"
             /\ result'[t].err = "AgentStartError"
             /\ result'[t].spawned = NoProc
             /\ proc_state' = proc_state
             /\ last_probe' = last_probe
             /\ process' = process
             /\ running_status' = running_status
             /\ op_lock'["start"] = NoTask
             /\ agent_lock'[Top(t).agent] = NoTask ]_vars

\* C23 witness: a start of an agent that is only partially installed was
\* refused, and its locks are free again.
StartOfPartialRefused ==
    \E t \in Tasks :
        /\ result[t].kind = "error" /\ result[t].op = "start"
        /\ result[t].err = "AgentStartError"
        /\ install_status[result[t].agent] = "partial"
        /\ op_lock["start"] = NoTask
        /\ agent_lock[result[t].agent] = NoTask

\* C24: a start_agent that finds its agent RUNNING with a handle that has
\* not exited ends in that step returning that handle: nothing is spawned
\* and the descriptor stays as it is.
StartOnRunningIsIdempotent ==
    [][ \A t \in Tasks :
          /\ stack[t] # <<>>
          /\ Top(t).op = "start" /\ Top(t).pc = "acq_agent"
          /\ install_status[Top(t).agent] = "installed"
          /\ running_status[Top(t).agent] = "running"
          /\ process[Top(t).agent] # NoProc
          /\ proc_state[process[Top(t).agent]] \in {"alive", "killed"}
          /\ stack'[t] # stack[t]
          => /\ stack'[t] = <<>>
             /\ result'[t].kind = "proc"
             /\ result'[t].proc = process[Top(t).agent]
             /\ result'[t].spawned = NoProc
             /\ proc_state' = proc_state
             /\ proc_agent' = proc_agent
             /\ process' = process
             /\ running_status' = running_status
             /\ install_status' = install_status ]_vars

\* C24 witness: a start returned the handle the descriptor already held,
\* without spawning, and that subprocess is running.
StartReturnedExistingHandle ==
    \E t \in Tasks :
        /\ StartResult(t)
        /\ result[t].spawned = NoProc
        /\ result[t].proc # NoProc
        /\ process[result[t].agent] = result[t].proc
        /\ running_status[result[t].agent] = "running"
        /\ Running(result[t].proc)

\* C25: a stop_agent of a running agent never leaves the agent's subprocess
\* as it was: the subprocess has exited (on terminate or on kill) and the
\* descriptor is cleared before the verification probe, or it was sent the
\* kill without effect and the stop raises AgentStopError.  After the
\* probe the stop returns True exactly when the agent did not respond, and
\* raises AgentStopError when it did.
StopIsVerified ==
    [][ \A t \in Tasks :
          stack[t] # <<>> /\ Top(t).op = "stop" /\ stack'[t] # stack[t] =>
            LET a == Top(t).agent
                p == process[a]
            IN  /\ ( /\ Top(t).pc = "acq_agent"
                     /\ running_status[a] = "running"
                     /\ p # NoProc )
                   => \/ /\ proc_state'[p] = "exited"
                         /\ process'[a] = NoProc
                         /\ running_status'[a] = "stopped"
                         /\ stack'[t] # <<>>
                         /\ Top(t)'.pc = "verify"
                      \/ /\ proc_state'[p] = "killed"
                         /\ stack'[t] = <<>>
                         /\ result'[t].kind = "error"
                         /\ result'[t].err = "AgentStopError"
                /\ Top(t).pc = "verify"
                   => /\ stack'[t] = <<>>
                      /\ last_probe'[a] \in {"ok", "fail"}
                      /\ last_probe'[a] = "fail"
                           => result'[t].kind = "bool" /\ result'[t].flag
                      /\ last_probe'[a] = "ok"
                           => /\ result'[t].kind = "error"
                              /\ result'[t].err = "AgentStopError" ]_vars

\* C25 witness: a stop ended in AgentStopError although the subprocess had
\* exited and the descriptor was cleared, because the agent still answered
\* the verification probe.
StopRefusedStillResponding ==
    \E t \in Tasks :
        /\ result[t].op = "stop" /\ result[t].kind = "error"
        /\ result[t].err = "AgentStopError"
        /\ last_probe[result[t].agent] = "ok"
        /\ process[result[t].agent] = NoProc
        /\ running_status[result[t].agent] = "stopped"

StopProcessAlwaysUnregisters ==
    /\ [](/\ stopping.raised # "none" => stopping.handle = NoHandleYet
          /\ \A i \in DOMAIN stopping.signals :
                stopping.signals[i] = "kill" =>
                    \E j \in 1..(i - 1) : stopping.signals[j] = "terminate")
    /\ [][ /\ (stopping.pc = "unregistering" /\ stopping'.pc = "returned")
                => registry'[stopping.slot] = NoHandleYet
           /\ (stopping'.pc = "raised" /\ stopping' # stopping)
                => registry[stopping'.slot] = NoHandleYet ]_vars

\* C27 witness: a stop_process returned after a failed termination in
\* which the process was sent a kill, and its key is not registered.
StoppedDespiteFailure ==
    /\ stopping.pc = "returned"
    /\ stopping.failed
    /\ \E i \in DOMAIN stopping.signals : stopping.signals[i] = "kill"
    /\ registry[stopping.slot] = NoHandleYet

\* C29: a tracked operation ends the way its body ended: no operation ends
\* with an error of the operation-record table.
RecordsNeverFailAnOperation ==
    \A c \in OpCalls :
        operations.calls[c].pc = "done" => operations.calls[c].outcome # "KeyError"

CarriesNumericId(e) == IsDigit(e.id) \/ (e.type = "message_update" /\ IsDigit(e.mid))

NumericIdOf(e) == IF IsDigit(e.id) THEN ToInt(e.id) ELSE ToInt(e.mid)

\* C30: each dispatch of an event with a numeric event or message id
\* leaves the watermark at the larger of that id and its previous value
\* (at that id when there was none); a dispatch of an event without a
\* numeric id, and a notify that failed, leave it unchanged.
WatermarkIsRunningMaximum ==
    [][ Len(sent') = Len(sent) + 1 =>
          LET d == sent'[Len(sent')] IN
          IF d.ok /\ CarriesNumericId(d.event)
          THEN /\ last_event_id' # <<>>
               /\ ToInt(last_event_id') =
                    IF last_event_id # <<>> /\ ToInt(last_event_id) > NumericIdOf(d.event)
                    THEN ToInt(last_event_id) ELSE NumericIdOf(d.event)
          ELSE last_event_id' = last_event_id ]_vars

\* C31: when the notify of one event of a batch raises, the failure is
\* counted, the events left of the batch are unchanged and are dispatched
\* in their sorted order (sent and unsent together are always the sorted,
\* deduplicated batch), and the dispatcher goes on: it can send the next
\* event, or end the batch and drain the next one.
DispatchFailureIsContained ==
    /\ [](DispatchOrder = Deduplicate(SortEvents(batch_in), {}))
    /\ []((batch_in # <<>> /\ events_to_process = <<>>) => ENABLED NextBatch)
    /\ [][ (Len(sent') = Len(sent) + 1 /\ ~sent'[Len(sent')].ok) =>
              /\ error_count' = error_count + 1
              /\ events_to_process # <<>>
              /\ events_to_process' = Tail(events_to_process)
              /\ last_event_id' = last_event_id ]_vars

\* The notify of one event of a batch failed and the event behind it in
\* the sorted batch was sent.
RestOfBatchSentAfterFailure ==
    \E i \in DOMAIN sent : ~sent[i].ok /\ i < Len(sent) /\ sent[i + 1].ok

\* C32: no screen_update is sent or waiting to be sent on the main
\* channel, and a drain empties the buffer, so every buffered screen_update
\* is removed by the drain without being published.
ScreenUpdatesNeverDispatched ==
    /\ [](\A i \in DOMAIN DispatchOrder : DispatchOrder[i].type # "screen_update")
    /\ [][ (batch_in = <<>> /\ batch_in' # <<>>) =>
              /\ batch_in' = event_buffer
              /\ event_buffer' = <<>>
              /\ \A i \in DOMAIN events_to_process' :
                    events_to_process'[i].type # "screen_update" ]_vars

\* A batch that held a screen_update and a screen event was drained, and
\* the screen event was sent.
ScreenUpdateDrainedAway ==
    /\ \E i \in DOMAIN batch_in : batch_in[i].type = "screen_update"
    /\ events_to_process = <<>>
    /\ \E j \in DOMAIN sent : sent[j].event.type = "screen" /\ sent[j].ok

\* An event that is neither a status change nor a message update: a
\* screen event or an event of any other type.
ScreenOrOther(e) == e.type \notin {"status_change", "message_update"}

\* The events of the last priority: the other types, and the message
\* updates without a numeric event id.
LastPriority(e) ==
    e.type # "status_change" /\ ~NumericMessage(e) /\ ~IsScreen(e)

\* C35 as stated: status changes are dispatched newest first; screen and
\* other-typed events are dispatched after every message update, the screen
\* events newest first and the other-typed events newest first.
ScreenAndOtherNewestFirstAfterMessages ==
    \A i, j \in DOMAIN DispatchOrder :
        LET a == DispatchOrder[i]
            b == DispatchOrder[j]
        IN  i < j =>
              /\ (a.type = "status_change" /\ b.type = "status_change") => a.ts >= b.ts
              /\ ~(ScreenOrOther(a) /\ b.type = "message_update")
              /\ (IsScreen(a) /\ IsScreen(b)) => a.ts >= b.ts
              /\ (ScreenOrOther(a) /\ ~IsScreen(a) /\ ScreenOrOther(b) /\ ~IsScreen(b))
                 => a.ts >= b.ts

\* C35: status changes are dispatched newest first; screen events are
\* dispatched after every message update with a numeric event id, newest
\* first; the other-typed events and the message updates without a numeric
\* event id are dispatched after every screen event, oldest first.
OtherEventsLastOldestFirst ==
    \A i, j \in DOMAIN DispatchOrder :
        LET a == DispatchOrder[i]
            b == DispatchOrder[j]
        IN  i < j =>
              /\ (a.type = "status_change" /\ b.type = "status_change") => a.ts >= b.ts
              /\ ~(IsScreen(a) /\ NumericMessage(b))
              /\ (IsScreen(a) /\ IsScreen(b)) => a.ts >= b.ts
              /\ ~(LastPriority(a) /\ (IsScreen(b) \/ NumericMessage(b)))
              /\ (LastPriority(a) /\ LastPriority(b)) => a.ts <= b.ts

\* A batch was sent in which an event of another type came before a newer
\* one and before a newer message update without a numeric event id.
OlderOtherEventSentFirst ==
    /\ events_to_process = <<>>
    /\ \E i, j, k \in DOMAIN sent :
        /\ i < j /\ j < k
        /\ sent[i].event.type = "agent_error" /\ sent[j].event.type = "agent_error"
        /\ sent[i].event.ts < sent[j].event.ts
        /\ sent[k].event.type = "message_update" /\ ~NumericMessage(sent[k].event)

\* C40: every connection request that follows an earlier connection of the
\* same call (after a drop, a failed attempt or a clean end of the stream)
\* was preceded by a backoff sleep.
EveryReconnectionIsDelayed ==
    (last_request.sent /\ last_request.again) => last_request.delayed

\* Task t's get_agent_status returns a status pair in this step.
GetStatusReturns(t) ==
    /\ stack[t] # <<>>
    /\ Top(t).op = "get_status"
    /\ stack'[t] = <<>>
    /\ result'[t].kind = "status"

\* C34: when get_agent_status returns, a handle that was polled alive and
\* whose probe failed gives unknown; a handle whose process has exited
\* gives stopped and is cleared; and running is returned only for a
\* descriptor that holds a handle, polled alive, whose probe succeeded.
GetStatusReconcilesHandleAndProbe ==
    [][ \A t \in Tasks :
          GetStatusReturns(t) =>
            LET a == Top(t).agent
                p == process[a]
                r == result'[t].run
            IN  /\ (Top(t).pc = "validating" /\ last_probe'[a] = ProbeOutcome(FALSE))
                   => r = "unknown" /\ running_status'[a] = "unknown"
                /\ (Top(t).pc = "after_detect" /\ p # NoProc /\ ~Alive(p))
                   => r = "stopped" /\ running_status'[a] = "stopped"
                      /\ process'[a] = NoProc
                /\ r = "running"
                   => p # NoProc /\ Top(t).pc = "validating"
                      /\ last_probe'[a] = ProbeOutcome(TRUE) ]_vars

\* C37: no two subprocesses spawned for one agent are alive at the same
\* time, and a descriptor's handle is replaced or cleared only when its
\* subprocess is no longer alive after the step.
OneLiveSubprocessAndNoLiveHandleDropped ==
    /\ [](\A p, q \in Procs :
            (Running(p) /\ Running(q) /\ proc_agent[p] = proc_agent[q]) => p = q)
    /\ [][ \A a \in Agents :
             (process[a] # NoProc /\ process'[a] # process[a])
             => proc_state'[process[a]] # "alive" ]_vars

\* C36: a task whose operation has ended (returned, raised or cancelled)
\* holds no category lock and no agent lock.
EndedOperationHoldsNoLock ==
    \A t \in Tasks :
        stack[t] = <<>> =>
            /\ \A k \in OpKinds : op_lock[k] # t
            /\ \A a \in Agents : agent_lock[a] # t

\* The emitter's tasks of one kind for one stream that are not done.
NotDone(kind, w) ==
    {i \in DOMAIN bridge.tasks :
        /\ bridge.tasks[i].kind = kind
        /\ bridge.tasks[i].w = w
        /\ bridge.tasks[i].pc \notin {"done", "refused"}}

\* C38: at any time at most one event-stream task of the emitter is not
\* done, whatever the interleaving of start_background_stream calls, the
\* stream's own restart after a failure and the health loop's restarts.
AtMostOneEventStreamTask == Cardinality(NotDone("stream", "event")) <= 1

\* C38 witness: the event stream was started a third time and the third
\* task runs, the first two being done.
ThirdEventStreamTaskRuns ==
    /\ Cardinality({i \in DOMAIN bridge.tasks :
                       bridge.tasks[i].kind = "stream" /\ bridge.tasks[i].w = "event"}) = 3
    /\ Cardinality(NotDone("stream", "event")) = 1
    /\ NotDone("launcher", "event") = {}

\* C39: once stop() has completed no event-stream, screen-stream or
\* health-loop task of the emitter is running, and no later step creates
\* one: a launcher that was waiting for the lock, or that a later call
\* created, starts nothing.
NothingRunsAfterStop ==
    /\ [](bridge.stop = "done" =>
             /\ \A w \in Streams : NotDone("stream", w) = {}
             /\ NotDone("health", "event") = {})
    /\ [][bridge.stop = "done" =>
             \A i \in DOMAIN bridge'.tasks \ DOMAIN bridge.tasks :
                 bridge'.tasks[i].kind = "launcher"]_vars

\* C39 witness: stop() has completed and a launcher that ran after it
\* returned None, while a stream task that stop() cancelled is done.
LauncherRefusedAfterStop ==
    /\ bridge.stop = "done"
    /\ \E i \in DOMAIN bridge.tasks : bridge.tasks[i].pc = "refused"
    /\ \E i \in DOMAIN bridge.tasks :
          bridge.tasks[i].kind = "stream" /\ bridge.tasks[i].pc = "done"

\* C33: the task registered under each of the emitter's stream keys is the
\* task that runs the stream, and once cleanup_all has returned no stream
\* task and no health task of the emitter is running.
TrackedTaskRunsTheStream ==
    /\ \A w \in Streams :
          (NotDone("stream", w) # {} /\ NotDone("launcher", w) = {})
             => bridge.tracked[TaskKey(w)] \in NotDone("stream", w)
    /\ bridge.cleaning = "done" =>
          /\ \A w \in Streams : NotDone("stream", w) = {}
          /\ NotDone("health", "event") = {}

====
